---- MODULE Spec2Model ----
(***************************************************************************)
(* Verification model of consoleet-utils (vfontas / vfalib).               *)
(*                                                                         *)
(* Part 1: the bitmap-to-outline vectorizer (vfalib.cpp, class vectorizer) *)
(* Part 2: the unicode map (struct unicode_map)                            *)
(* Part 3: the raster glyph operations and the font-wide commands that     *)
(*         apply them (class glyph, class font, vfontas command handlers)  *)
(***************************************************************************)
EXTENDS Integers, Sequences, FiniteSets, TLC

(***************************************************************************)
(* Bounds of the model                                                     *)
(***************************************************************************)
\* largest glyph width / height drawn for the general vectorizer runs
MaxW == 3
MaxH == 3
\* largest descent handed to the vectorizer
MaxDescent == 1
\* largest numerator / denominator of the "ssf" property
MaxSsf == 1
\* width / height of the glyphs drawn for the n2_angle (pimple) runs
StemW == 5
StemH == 2

\* the indices 0..MaxIdx and the code points 1..MaxCp of the unicode map runs
MaxIdx == 1
MaxCp == 3
\* glyph conversions: glyphs up to RowW x RowH pixels of which at most
\* MaxInk are set, or all but at most MaxInk
RowW == 9
RowH == 2
MaxInk == 2
\* fonts of up to MaxGlyphs glyphs of up to FontW x FontH pixels each
MaxGlyphs == 2
FontW == 2
FontH == 2
\* glyph transforms: glyphs up to TW x TH pixels, overstrike by up to MaxPx
TW == 3
TH == 2
MaxPx == 3
\* palcomp: expressions of up to MaxExpr characters
MaxExpr == 5
\* palcomp: a colour channel (uint8_t in the program) holds 0..ChanMax, and
\* a run executes up to MaxCmds commands
ChanMax == 3
MaxCmds == 3

VARIABLES
    \* ---- vectorizer ----
    m_glyph,          \* vectorizer::m_glyph
    m_descent,        \* vectorizer::m_descent
    scale_factor_x,   \* vectorizer::scale_factor_x
    scale_factor_y,   \* vectorizer::scale_factor_y
    vt,               \* enum vectoalg chosen by save_sfd_glyph
    pc,               \* position inside simple()/n1()/n2()
    emap,             \* vectorizer::emap, std::set<edge>
    pmap,             \* the polygons returned so far
    n2log,            \* per polygon of n2(): the polygon as popped, and
                      \* the vertices n2_angle cut (history, not program state)
    \* ---- unicode_map ----
    m_i2u,            \* unicode_map::m_i2u, index -> set of code points
    m_u2i,            \* unicode_map::m_u2i, code point -> index
    last_idx,         \* history: code point -> index of its latest add_i2u,
                      \* as long as only add_i2u has been called
    swap_log,         \* history: the run of equal swap_idx calls just made
                      \* and the maps before the first of them
    \* ---- glyph conversions ----
    rp_glyph,         \* the glyph as_rowpad is called on
    rp_buf,           \* the string as_rowpad returned
    rp_ng,            \* the glyph create_from_rpad returned
    rp_pc,            \* "glyph" -> "rowpad" -> "created"
    \* ---- font commands ----
    f_m_glyph,        \* font::m_glyph of the font f the commands work on
    f_before,         \* history: f.m_glyph before the last command
    f_cmd,            \* history: the last command and its arguments
    \* ---- glyph transforms ----
    t_glyph,          \* the glyph a transform is called on
    t_arg,            \* the arguments of the transform
    t_out,            \* the glyph the latest call returned
    t_pc,             \* "glyph" -> "struck", "glyph" -> "flip1" -> "flip2"
    \* ---- palcomp: expressions ----
    e_expr,           \* the expression text handed to eval_tokenize
    e_res,            \* what eval_tokenize returned: ret, end, tokens
    e_pc,             \* "expr" -> "parsed"
    \* ---- palcomp: the palette ----
    allpal,           \* main: allpal, name -> mpalette; mpal is allpal["0"]
    xyz_to_lrgb_matrix,\* the global xyz_to_lrgb_matrix
    p_status,         \* "run", or how the process ended: "ok", "fail", "crash"
    p_out,            \* what the last command wrote to stdout
    p_oob,            \* history: the last command indexed a vector out of range
    p_cmds,           \* history: the commands executed so far
    p_before,         \* history: allpal before the last command
    \* ---- vfontas: the command loop of main ----
    a_argv,           \* the command words of vfontas (argv without the program name)
    a_pos,            \* the index into a_argv of the word main looks at (argv), from 1
    a_status,         \* "run", or how main returned: "ok", "fail"
    a_log,            \* history: the handler calls, with position, command, arguments, result
    \* ---- vfontas: commands that go through the unicode map ----
    u_nglyph,         \* m_glyph.size() of the font
    u_has_map,        \* m_unicode_map != nullptr
    u_u2i,            \* m_unicode_map->m_u2i
    u_cmd,            \* the last command: "none", "loadmap", "lgeu", "lgeuf", "savebdf", "savesfd"
    u_access,         \* history: the indices i of the m_glyph[i] the last command evaluated
    u_status,         \* "run", or "crash" after an access beyond the end that ended the process
    \* ---- palcomp: eq and loeq ----
    q_la,             \* the LCh array (mpal.la) the equalize command works on
    q_arg,            \* the command word: op, and the numbers after = and after ,
    q_tie,            \* how std::sort orders selected entries of equal L
    q_out,            \* mpal.la after the command
    q_pc,             \* "la" -> "equalized"
    \* ---- save_sfd: the ssf property ----
    ssf_has,          \* props.find("ssf") != props.end()
    ssf_text,         \* props["ssf"], the text given to setprop
    m_ssfx,           \* font::m_ssfx
    m_ssfy,           \* font::m_ssfy
    ssf_pc,           \* "props" -> "parsed"
    \* ---- vfontas: the command copy ----
    cp_glyph,         \* font::m_glyph
    cp_before,        \* m_glyph before the command
    cp_cmd,           \* the arguments of "copy" after strtol
    cp_pc,            \* "loaded" -> "copied" or "overrun"
    \* ---- two glyphs with the same pixels ----
    pd_a,             \* a glyph as loaded: the bits beyond w*h are clear
    pd_b,             \* a glyph that is inverted: the same pixels after invert()
    pd_op,            \* the transform or writer applied to both
    pd_outa,          \* what it made of pd_a
    pd_outb,          \* what it made of pd_b
    pd_pc             \* "loaded" -> "inverted" -> ("vec1" -> "vec2" ->) "consumed"

vecvars == <<m_glyph, m_descent, scale_factor_x, scale_factor_y, vt, pc,
             emap, pmap, n2log>>
mapvars == <<m_i2u, m_u2i, last_idx, swap_log>>
rpvars == <<rp_glyph, rp_buf, rp_ng, rp_pc>>
fontvars == <<f_m_glyph, f_before, f_cmd>>
tvars == <<t_glyph, t_arg, t_out, t_pc>>
evars == <<e_expr, e_res, e_pc>>
pvars == <<allpal, xyz_to_lrgb_matrix, p_status, p_out, p_oob, p_cmds, p_before>>
avars == <<a_argv, a_pos, a_status, a_log>>
uvars == <<u_nglyph, u_has_map, u_u2i, u_cmd, u_access, u_status>>
qvars == <<q_la, q_arg, q_tie, q_out, q_pc>>
ssfvars == <<ssf_has, ssf_text, m_ssfx, m_ssfy, ssf_pc>>
cpvars == <<cp_glyph, cp_before, cp_cmd, cp_pc>>
padvars == <<pd_a, pd_b, pd_op, pd_outa, pd_outb, pd_pc>>

vars == <<vecvars, mapvars, rpvars, fontvars, tvars, evars, pvars, avars, uvars, qvars, ssfvars, cpvars, padvars>>

\* the parts of the state a run of one component leaves alone
nonvec == <<mapvars, rpvars, fontvars, tvars, evars, pvars, avars, uvars, qvars, ssfvars, cpvars, padvars>>
nonmap == <<vecvars, rpvars, fontvars, tvars, evars, pvars, avars, uvars, qvars, ssfvars, cpvars, padvars>>
nonrp == <<vecvars, mapvars, fontvars, tvars, evars, pvars, avars, uvars, qvars, ssfvars, cpvars, padvars>>
nonfont == <<vecvars, mapvars, rpvars, tvars, evars, pvars, avars, uvars, qvars, ssfvars, cpvars, padvars>>
nont == <<vecvars, mapvars, rpvars, fontvars, evars, pvars, avars, uvars, qvars, ssfvars, cpvars, padvars>>
none_ == <<vecvars, mapvars, rpvars, fontvars, tvars, pvars, avars, uvars, qvars, ssfvars, cpvars, padvars>>
nonp == <<vecvars, mapvars, rpvars, fontvars, tvars, evars, avars, uvars, qvars, ssfvars, cpvars, padvars>>
nona == <<vecvars, mapvars, rpvars, fontvars, tvars, evars, pvars, uvars, qvars, ssfvars, cpvars, padvars>>
nonu == <<vecvars, mapvars, rpvars, fontvars, tvars, evars, pvars, avars, qvars, ssfvars, cpvars, padvars>>
nonq == <<vecvars, mapvars, rpvars, fontvars, tvars, evars, pvars, avars, uvars, ssfvars, cpvars, padvars>>
nonssf == <<vecvars, mapvars, rpvars, fontvars, tvars, evars, pvars, avars, uvars, qvars, cpvars, padvars>>
noncp == <<vecvars, mapvars, rpvars, fontvars, tvars, evars, pvars, avars, uvars, qvars, ssfvars, padvars>>
nonpad == <<vecvars, mapvars, rpvars, fontvars, tvars, evars, pvars, avars, uvars, qvars, ssfvars, cpvars>>

\* a component that is not run: its variables hold nothing
VecIdle ==
    /\ m_glyph = <<>> /\ m_descent = 0
    /\ scale_factor_x = 0 /\ scale_factor_y = 0
    /\ vt = "" /\ pc = "idle" /\ emap = {} /\ pmap = <<>> /\ n2log = <<>>
MapIdle == m_i2u = <<>> /\ m_u2i = <<>> /\ last_idx = <<>> /\ swap_log = <<>>
RpadIdle == rp_glyph = <<>> /\ rp_buf = <<>> /\ rp_ng = <<>> /\ rp_pc = "idle"
FontIdle == f_m_glyph = <<>> /\ f_before = <<>> /\ f_cmd = <<>>
TIdle == t_glyph = <<>> /\ t_arg = <<>> /\ t_out = <<>> /\ t_pc = "idle"
EIdle == e_expr = <<>> /\ e_res = <<>> /\ e_pc = "idle"
PIdle == allpal = <<>> /\ xyz_to_lrgb_matrix = <<>> /\ p_status = "idle" /\ p_out = <<>>
    /\ p_oob = FALSE /\ p_cmds = <<>> /\ p_before = <<>>
AIdle == a_argv = <<>> /\ a_pos = 0 /\ a_status = "idle" /\ a_log = <<>>
UIdle == u_nglyph = 0 /\ u_has_map = FALSE /\ u_u2i = <<>> /\ u_cmd = "idle" /\ u_access = {} /\ u_status = "idle"
QIdle == q_la = <<>> /\ q_arg = <<>> /\ q_tie = "" /\ q_out = <<>> /\ q_pc = "idle"
SsfIdle == ssf_has = FALSE /\ ssf_text = <<>> /\ m_ssfx = 0 /\ m_ssfy = 0 /\ ssf_pc = "idle"
CopyIdle == cp_glyph = <<>> /\ cp_before = <<>> /\ cp_cmd = <<>> /\ cp_pc = "idle"
PadIdle == pd_a = <<>> /\ pd_b = <<>> /\ pd_op = "" /\ pd_outa = <<>> /\ pd_outb = <<>> /\ pd_pc = "idle"

\* a run of one component: all the others are idle
VecOnly == MapIdle /\ RpadIdle /\ FontIdle /\ TIdle /\ EIdle /\ PIdle /\ AIdle /\ UIdle /\ QIdle /\ SsfIdle /\ CopyIdle /\ PadIdle
MapOnly == VecIdle /\ RpadIdle /\ FontIdle /\ TIdle /\ EIdle /\ PIdle /\ AIdle /\ UIdle /\ QIdle /\ SsfIdle /\ CopyIdle /\ PadIdle
RpadOnly == VecIdle /\ MapIdle /\ FontIdle /\ TIdle /\ EIdle /\ PIdle /\ AIdle /\ UIdle /\ QIdle /\ SsfIdle /\ CopyIdle /\ PadIdle
FontOnly == VecIdle /\ MapIdle /\ RpadIdle /\ TIdle /\ EIdle /\ PIdle /\ AIdle /\ UIdle /\ QIdle /\ SsfIdle /\ CopyIdle /\ PadIdle
TOnly == VecIdle /\ MapIdle /\ RpadIdle /\ FontIdle /\ EIdle /\ PIdle /\ AIdle /\ UIdle /\ QIdle /\ SsfIdle /\ CopyIdle /\ PadIdle
EOnly == VecIdle /\ MapIdle /\ RpadIdle /\ FontIdle /\ TIdle /\ PIdle /\ AIdle /\ UIdle /\ QIdle /\ SsfIdle /\ CopyIdle /\ PadIdle
POnly == VecIdle /\ MapIdle /\ RpadIdle /\ FontIdle /\ TIdle /\ EIdle /\ AIdle /\ UIdle /\ QIdle /\ SsfIdle /\ CopyIdle /\ PadIdle
AOnly == VecIdle /\ MapIdle /\ RpadIdle /\ FontIdle /\ TIdle /\ EIdle /\ PIdle /\ UIdle /\ QIdle /\ SsfIdle /\ CopyIdle /\ PadIdle
UOnly == VecIdle /\ MapIdle /\ RpadIdle /\ FontIdle /\ TIdle /\ EIdle /\ PIdle /\ AIdle /\ QIdle /\ SsfIdle /\ CopyIdle /\ PadIdle
QOnly == VecIdle /\ MapIdle /\ RpadIdle /\ FontIdle /\ TIdle /\ EIdle /\ PIdle /\ AIdle /\ UIdle /\ SsfIdle /\ CopyIdle /\ PadIdle
SsfOnly == VecIdle /\ MapIdle /\ RpadIdle /\ FontIdle /\ TIdle /\ EIdle /\ PIdle /\ AIdle /\ UIdle /\ QIdle /\ CopyIdle /\ PadIdle
CopyOnly == VecIdle /\ MapIdle /\ RpadIdle /\ FontIdle /\ TIdle /\ EIdle /\ PIdle /\ AIdle /\ UIdle /\ QIdle /\ SsfIdle /\ PadIdle
PadOnly == VecIdle /\ MapIdle /\ RpadIdle /\ FontIdle /\ TIdle /\ EIdle /\ PIdle /\ AIdle /\ UIdle /\ QIdle /\ SsfIdle /\ CopyIdle

(***************************************************************************)
(* Bit-packed glyph storage                                                *)
(***************************************************************************)
\* struct bitpos: byte index and bit-within-byte of linear bit n.  The mask
\* 1 << bybit is represented by bybit itself; a byte is the set of the bit
\* numbers (0..7) that are 1 in it.
bitpos(n) == [byte |-> n \div 8, bybit |-> 7 - (n % 8)]

\* m_data[bp.byte] & bp.mask
TestBit(data, n) == bitpos(n).bybit \in data[bitpos(n).byte + 1]

bytes_per_glyph(size) == (size.w * size.h + 8 - 1) \div 8

\* glyph::glyph(const vfsize &): zero-filled buffer of bytes_per_glyph bytes
BlankGlyph(size) ==
    [m_size |-> size, m_data |-> [i \in 1..bytes_per_glyph(size) |-> {}]]

\* The glyph of the given size whose set pixels are exactly pix (a set of
\* <<x, y>>), with the padding bits of the last byte clear.
GlyphOf(w, h, pix) ==
    [m_size |-> [w |-> w, h |-> h],
     m_data |-> [i \in 1..bytes_per_glyph([w |-> w, h |-> h]) |->
                   {7 - (n % 8) : n \in {k \in 0..(w * h - 1) :
                        k \div 8 = i - 1 /\ <<k % w, k \div w>> \in pix}}]]

Cells(w, h) == (0..(w - 1)) \X (0..(h - 1))

AllGlyphs(w, h) == {GlyphOf(w, h, pix) : pix \in SUBSET Cells(w, h)}

testbit_c(g, x, y) ==
    IF x < 0 \/ y < 0 \/ x >= g.m_size.w \/ y >= g.m_size.h
    THEN FALSE
    ELSE TestBit(g.m_data, y * g.m_size.w + x)

testbit_u(g, x, y) == TestBit(g.m_data, y * g.m_size.w + x)

(***************************************************************************)
(* Geometry primitives                                                     *)
(***************************************************************************)
Vtx(y, x) == [y |-> y, x |-> x]
Edge(s, e) == [start_vtx |-> s, end_vtx |-> e]

\* vertex::operator<
VertexLess(a, b) == a.y < b.y \/ (a.y = b.y /\ a.x < b.x)

\* edge::operator<
EdgeLess(a, b) ==
    \/ VertexLess(a.start_vtx, b.start_vtx)
    \/ (a.start_vtx = b.start_vtx /\ VertexLess(a.end_vtx, b.end_vtx))

\* edge::trivial_dir
trivial_dir(e) ==
    IF e.end_vtx.y > e.start_vtx.y
    THEN (IF e.end_vtx.x = e.start_vtx.x THEN 0
          ELSE IF e.end_vtx.x < e.start_vtx.x THEN 315 ELSE 45)
    ELSE IF e.end_vtx.y < e.start_vtx.y
    THEN (IF e.end_vtx.x = e.start_vtx.x THEN 180
          ELSE IF e.end_vtx.x < e.start_vtx.x THEN 225 ELSE 135)
    ELSE (IF e.end_vtx.x < e.start_vtx.x THEN 270 ELSE 90)

\* the least element of a non-empty set of integers
MinOf(S) == CHOOSE m \in S : \A k \in S : m <= k

\* the k-th key of the order of edge::operator<
EdgeKey(e, k) ==
    IF k = 1 THEN e.start_vtx.y
    ELSE IF k = 2 THEN e.start_vtx.x
    ELSE IF k = 3 THEN e.end_vtx.y
    ELSE e.end_vtx.x

\* the elements of s whose k-th key is m, and those whose k-th key is least
WithKey(s, k, m) == {e \in s : EdgeKey(e, k) = m}
LeastBy(s, k) == WithKey(s, k, MinOf({EdgeKey(e, k) : e \in s}))

\* *s.begin() of a non-empty std::set<edge>: the least edge under
\* edge::operator<, i.e. under the order (start.y, start.x, end.y, end.x)
FirstEdge(s) ==
    CHOOSE e \in LeastBy(LeastBy(LeastBy(LeastBy(s, 1), 2), 3), 4) : TRUE

\* C++ integer division (truncation towards zero) by b > 0; a division by
\* zero that does not end the process is taken to give 0
CDiv(a, b) == IF b = 0 THEN 0 ELSE IF a >= 0 THEN a \div b ELSE -((-a) \div b)

(***************************************************************************)
(* Vectorizer: edge emission                                               *)
(***************************************************************************)
\* vectorizer::default_scale_factor
default_scale_factor == 2

V_SIMPLE == "V_SIMPLE"
V_N1 == "V_N1"
V_N2 == "V_N2"
V_N2EV == "V_N2EV"

P_SIMPLIFY_LINES == "P_SIMPLIFY_LINES"
P_ISTHMUS == "P_ISTHMUS"

\* set() with the square drawn the other way round
SquareOutline_reversed(x, y) ==
    LET sx == scale_factor_x
        sy == scale_factor_y
        xs == x * sx
        ys == y * sy
    IN  << Edge(Vtx(ys, xs),           Vtx(ys, xs + sx)),
           Edge(Vtx(ys, xs + sx),      Vtx(ys + sy, xs + sx)),
           Edge(Vtx(ys + sy, xs + sx), Vtx(ys + sy, xs)),
           Edge(Vtx(ys + sy, xs),      Vtx(ys, xs)) >>

\* The four edges vectorizer::set(x, y) inserts; as a sequence, in insertion
\* order (the square's outline as set() draws it).
SquareOutline(x, y) ==
    LET sx == scale_factor_x
        sy == scale_factor_y
        xs == x * sx
        ys == y * sy
    IN  << Edge(Vtx(ys, xs),           Vtx(ys + sy, xs)),
           Edge(Vtx(ys + sy, xs),      Vtx(ys + sy, xs + sx)),
           Edge(Vtx(ys + sy, xs + sx), Vtx(ys, xs + sx)),
           Edge(Vtx(ys, xs + sx),      Vtx(ys, xs)) >>

\* vectorizer::set
set(x, y) == {SquareOutline(x, y)[i] : i \in 1..4}

\* make_squares() without the descent shift
make_squares_noshift ==
    LET sz == m_glyph.m_size IN
    UNION {set(c[1], sz.h - 1 - c[2]) :
             c \in {d \in Cells(sz.w, sz.h) :
                      TestBit(m_glyph.m_data, d[2] * sz.w + d[1])}}

\* vectorizer::make_squares: the edges inserted for all set pixels
make_squares ==
    LET sz == m_glyph.m_size IN
    UNION {set(c[1], sz.h - 1 - c[2] - m_descent) :
             c \in {d \in Cells(sz.w, sz.h) :
                      TestBit(m_glyph.m_data, d[2] * sz.w + d[1])}}

\* The edges the body of the double loop of vectorizer::n1 inserts for the
\* bitmap position (ux, uy).
N1Cell(ux, uy) ==
    LET g == m_glyph
        y == g.m_size.h - 1 - uy - m_descent
        x == ux
        c1 == testbit_c(g, ux - 1, uy + 1)
        c2 == testbit_c(g, ux,     uy + 1)
        c3 == testbit_c(g, ux + 1, uy + 1)
        c4 == testbit_c(g, ux - 1, uy)
        c5 == testbit_u(g, ux,     uy)
        c6 == testbit_c(g, ux + 1, uy)
        c7 == testbit_c(g, ux - 1, uy - 1)
        c8 == testbit_c(g, ux,     uy - 1)
        c9 == testbit_c(g, ux + 1, uy - 1)
        di == c5
        tl == (c4 /\ ((c8 /\ ((~c7 /\ (c1 \/ c3 \/ c9)) \/ (~c1 /\ ~c2) \/ (~c6 /\ ~c9))) \/ c5))
              \/ (c5 /\ ((~c1 /\ ~c9) \/ c7 \/ c8))
        tr == (((~c7 /\ ~c3) \/ c9 \/ c8 \/ c6) /\ c5)
              \/ (((~c9 /\ (c1 \/ c3 \/ c7)) \/ (~c2 /\ ~c3) \/ (~c4 /\ ~c7)) /\ c8 /\ c6)
        bl == (c5 /\ (c1 \/ c2 \/ (~c3 /\ ~c7) \/ c4))
              \/ (c2 /\ c4 /\ ((~c1 /\ (c3 \/ c7 \/ c9)) \/ (~c3 /\ ~c6) \/ (~c7 /\ ~c8)))
        br == (c2 /\ ((c6 /\ ((~c3 /\ (c1 \/ c7 \/ c9)) \/ (~c1 /\ ~c4) \/ (~c8 /\ ~c9))) \/ c5))
              \/ (c5 /\ ((~c1 /\ ~c9) \/ c3 \/ c6))
    IN  (IF tl THEN {Edge(Vtx(2*y+1, 2*x),   Vtx(2*y+2, 2*x)),
                     Edge(Vtx(2*y+2, 2*x),   Vtx(2*y+2, 2*x+1)),
                     Edge(Vtx(2*y+2, 2*x+1), Vtx(2*y+1, 2*x))} ELSE {})
        \cup
        (IF tr THEN {Edge(Vtx(2*y+2, 2*x+1), Vtx(2*y+2, 2*x+2)),
                     Edge(Vtx(2*y+2, 2*x+2), Vtx(2*y+1, 2*x+2)),
                     Edge(Vtx(2*y+1, 2*x+2), Vtx(2*y+2, 2*x+1))} ELSE {})
        \cup
        (IF bl THEN {Edge(Vtx(2*y,   2*x),   Vtx(2*y+1, 2*x)),
                     Edge(Vtx(2*y+1, 2*x),   Vtx(2*y,   2*x+1)),
                     Edge(Vtx(2*y,   2*x+1), Vtx(2*y,   2*x))} ELSE {})
        \cup
        (IF br THEN {Edge(Vtx(2*y,   2*x+1), Vtx(2*y+1, 2*x+2)),
                     Edge(Vtx(2*y+1, 2*x+2), Vtx(2*y,   2*x+2)),
                     Edge(Vtx(2*y,   2*x+2), Vtx(2*y,   2*x+1))} ELSE {})
        \cup
        (IF di THEN {Edge(Vtx(2*y+1, 2*x),   Vtx(2*y+2, 2*x+1)),
                     Edge(Vtx(2*y+2, 2*x+1), Vtx(2*y+1, 2*x+2)),
                     Edge(Vtx(2*y+1, 2*x+2), Vtx(2*y,   2*x+1)),
                     Edge(Vtx(2*y,   2*x+1), Vtx(2*y+1, 2*x))} ELSE {})

\* the emission loop of vectorizer::n1
n1_emit ==
    UNION {N1Cell(c[1], c[2]) : c \in Cells(m_glyph.m_size.w, m_glyph.m_size.h)}

(***************************************************************************)
(* Vectorizer: internal_edge_delete                                        *)
(***************************************************************************)
\* The loop of internal_edge_delete: em is the set, todo the elements the
\* iterator has not passed yet, edge the element it is at.
RECURSIVE IedLoop(_, _)
IedStep(em, todo, edge) ==
    IF Edge(edge.end_vtx, edge.start_vtx) \notin em
    THEN IedLoop(em, todo \ {edge})
    ELSE IF edge.end_vtx = edge.start_vtx THEN em
    ELSE IedLoop(em \ {edge, Edge(edge.end_vtx, edge.start_vtx)},
                 todo \ {edge, Edge(edge.end_vtx, edge.start_vtx)})

IedLoop(em, todo) == IF todo = {} THEN em ELSE IedStep(em, todo, FirstEdge(todo))

\* internal_edge_delete that removes nothing
internal_edge_delete_none(em) == em

internal_edge_delete(em) == IedLoop(em, em)

(***************************************************************************)
(* Vectorizer: polygon extraction                                          *)
(***************************************************************************)
\* emap.end()
EndIt == Edge(Vtx(-4096, -4096), Vtx(-4096, -4096))

\* neigh_edges that never swaps the two edges
NeighTwo_noswap(lb, nx, cur_dir) == [ret |-> 2, inward |-> lb, outward |-> nx]

\* neigh_edges when two edges lb < nx start at the tail vertex
NeighTwo(lb, nx, cur_dir) ==
    IF cur_dir = 0 \/ cur_dir = 270
    THEN [ret |-> 2, inward |-> nx, outward |-> lb]
    ELSE [ret |-> 2, inward |-> lb, outward |-> nx]

\* neigh_edges when lb is the first of the edges at that start at the tail
NeighFrom(at, lb, cur_dir) ==
    IF at = {lb} THEN [ret |-> 1, inward |-> lb, outward |-> EndIt]
    ELSE NeighTwo(lb, FirstEdge(at \ {lb}), cur_dir)

\* neigh_edges, given the edges at that start at the tail vertex
NeighAt(at, cur_dir) ==
    IF at = {} THEN [ret |-> 0, inward |-> EndIt, outward |-> EndIt]
    ELSE NeighFrom(at, FirstEdge(at), cur_dir)

\* vectorizer::neigh_edges.  The set is sorted by start vertex first, so
\* lower_bound({tail, {INT_MIN, INT_MIN}}) is the first edge that starts at
\* tail, if there is one, and std::next of it is the second such edge.
neigh_edges(em, cur_dir, tail) == NeighAt({e \in em : e.start_vtx = tail}, cur_dir)

\* the vertex next_edge assigns to bmp before the divisions.
\* struct vertex is {y, x}: a braced initialiser assigns y first, then x.
IsthmusRaw(cur_dir, cur_edge) ==
    IF cur_dir = 0 THEN cur_edge.start_vtx
    ELSE IF cur_dir = 90
    THEN Vtx(cur_edge.start_vtx.x, cur_edge.start_vtx.y - scale_factor_y)
    ELSE IF cur_dir = 180
    THEN Vtx(cur_edge.start_vtx.x - scale_factor_x, cur_edge.end_vtx.y)
    ELSE IF cur_dir = 270 THEN cur_edge.end_vtx
    ELSE Vtx(0, 0)

\* bmp.x /= scale_factor_x; bmp.y /= scale_factor_y;
\* bmp.y = m_glyph.m_size.h - bmp.y - m_descent - 1
IsthmusScale(raw) ==
    Vtx(m_glyph.m_size.h - CDiv(raw.y, scale_factor_y) - m_descent - 1,
        CDiv(raw.x, scale_factor_x))

\* The bitmap position next_edge computes for the neighbourhood tests.
IsthmusBmp(cur_dir, cur_edge) == IsthmusScale(IsthmusRaw(cur_dir, cur_edge))

\* the tests for the patterns A1 and A2 around bmp: TRUE when next_edge
\* returns inward
IsthmusInward(g, bmp, cur_dir) ==
    \/ cur_dir = 0 /\ testbit_c(g, bmp.x - 2, bmp.y) /\ testbit_c(g, bmp.x, bmp.y - 2)
    \/ cur_dir = 90 /\ testbit_c(g, bmp.x, bmp.y - 2) /\ testbit_c(g, bmp.x + 2, bmp.y)
    \/ cur_dir = 180 /\ testbit_c(g, bmp.x + 2, bmp.y) /\ testbit_c(g, bmp.x, bmp.y + 2)
    \/ cur_dir = 270 /\ testbit_c(g, bmp.x, bmp.y + 2) /\ testbit_c(g, bmp.x - 2, bmp.y)
    \/ cur_dir = 0 /\ testbit_c(g, bmp.x - 2, bmp.y - 1)
                   /\ testbit_c(g, bmp.x - 1, bmp.y - 2)
    \/ cur_dir = 90 /\ testbit_c(g, bmp.x + 1, bmp.y - 2)
                    /\ testbit_c(g, bmp.x + 2, bmp.y - 1)
    \/ cur_dir = 180 /\ testbit_c(g, bmp.x + 2, bmp.y + 1)
                     /\ testbit_c(g, bmp.x + 1, bmp.y + 2)
    \/ cur_dir = 270 /\ testbit_c(g, bmp.x - 2, bmp.y + 1)
                     /\ testbit_c(g, bmp.x - 1, bmp.y + 2)

\* next_edge after the call of neigh_edges, ne being what that returned
NextOf(ne, cur_dir, cur_edge, flags) ==
    IF P_ISTHMUS \notin flags \/ ne.ret <= 1 THEN ne.inward
    ELSE IF IsthmusInward(m_glyph, IsthmusBmp(cur_dir, cur_edge), cur_dir)
    THEN ne.inward
    ELSE ne.outward

\* vectorizer::next_edge
next_edge(em, cur_dir, cur_edge, flags) ==
    NextOf(neigh_edges(em, cur_dir, cur_edge.end_vtx), cur_dir, cur_edge, flags)

\* line simplification that drops the walked edge without moving the tail
WalkAppend_droptail(poly, next, prev_dir, flags) ==
    IF P_SIMPLIFY_LINES \in flags /\ trivial_dir(next) = prev_dir
    THEN poly
    ELSE Append(poly, next)

\* The polygon's last edge after one more edge has been walked: either the
\* tail vertex is moved (line simplification) or the edge is appended.
WalkAppend(poly, next, prev_dir, flags) ==
    IF P_SIMPLIFY_LINES \in flags /\ trivial_dir(next) = prev_dir
    THEN [poly EXCEPT ![Len(poly)].end_vtx = next.end_vtx]
    ELSE Append(poly, next)

\* The while(true) loop of vectorizer::pop_poly; PopStep is its body from
\* the test of the edge that next_edge returned on
RECURSIVE PopWalk(_, _, _, _)
PopStep(em, poly, prev_dir, flags, next) ==
    IF next = EndIt THEN [poly |-> poly, emap |-> em]
    ELSE PopWalk(em \ {next}, WalkAppend(poly, next, prev_dir, flags),
                 trivial_dir(next), flags)

PopWalk(em, poly, prev_dir, flags) ==
    IF em = {} THEN [poly |-> poly, emap |-> em]
    ELSE IF poly[Len(poly)].end_vtx = poly[1].start_vtx
    THEN [poly |-> poly, emap |-> em]
    ELSE PopStep(em, poly, prev_dir, flags,
                 next_edge(em, prev_dir, poly[Len(poly)], flags))

\* next_edge executes bmp.x /= scale_factor_x and bmp.y /= scale_factor_y
\* with a divisor of 0: with P_ISTHMUS, when two edges start at the tail
DividesByZero(ne, flags) ==
    /\ P_ISTHMUS \in flags
    /\ ne.ret = 2
    /\ (scale_factor_x = 0 \/ scale_factor_y = 0)

\* some call of next_edge in the loop of pop_poly divides by zero
RECURSIVE ZeroWalk(_, _, _, _)
ZeroStep(em, poly, prev_dir, flags, next) ==
    \/ DividesByZero(neigh_edges(em, prev_dir, poly[Len(poly)].end_vtx), flags)
    \/ /\ next # EndIt
       /\ ZeroWalk(em \ {next}, WalkAppend(poly, next, prev_dir, flags),
                   trivial_dir(next), flags)

ZeroWalk(em, poly, prev_dir, flags) ==
    /\ em # {}
    /\ poly[Len(poly)].end_vtx # poly[1].start_vtx
    /\ ZeroStep(em, poly, prev_dir, flags,
                next_edge(em, prev_dir, poly[Len(poly)], flags))

\* pop_poly from the first edge on
PopFrom(em, first, flags) ==
    PopWalk(em \ {first}, <<first>>, trivial_dir(first), flags)

\* vectorizer::pop_poly: the polygon and the edge set that remains
pop_poly(em, flags) ==
    IF em = {} THEN [poly |-> <<>>, emap |-> em]
    ELSE PopFrom(em, FirstEdge(em), flags)

(***************************************************************************)
(* Vectorizer: n2_angle                                                    *)
(***************************************************************************)
M_HEAD == "M_HEAD"
M_TAIL == "M_TAIL"
M_XHEAD == "M_XHEAD"
M_XTAIL == "M_XTAIL"

\* poly[i] and flags[i] with the 0-based indices of the source
At(seq, i) == seq[i + 1]
\* flags[i] |= bits
FlagOr(flags, i, bits) == [flags EXCEPT ![i + 1] = @ \cup bits]
\* flags[i] = bits
FlagSet(flags, i, bits) == [flags EXCEPT ![i + 1] = bits]

\* the seven directions of the window that starts at edge xm3
WindowDirs(poly, xm3) ==
    [k \in 0..6 |-> trivial_dir(At(poly, (xm3 + k) % Len(poly)))]

\* "pimple __|~|__ ('f', '4'), retain": the test of the first if-block on
\* the window directions d = <<dm3, dm2, dm1, d00, dp1, dp2, dp3>>
PimpleDirs(d) ==
    /\ d[3] = d[1] /\ d[3] = d[5]
    /\ (d[0] = d[3] \/ d[0] = d[4])
    /\ (d[6] = d[3] \/ d[6] = d[2])
    /\ d[2] = (d[1] + 270) % 360
    /\ d[4] = (d[1] + 90) % 360

PimpleMatch(poly, xm3) == PimpleDirs(WindowDirs(poly, xm3))

\* the flag updates of the pimple branch
PimpleMark(flags, n, xm3) ==
    FlagOr(FlagSet(FlagSet(FlagSet(FlagOr(flags,
                (xm3 + 1) % n, {M_XTAIL}),
                (xm3 + 2) % n, {M_XHEAD, M_XTAIL}),
                (xm3 + 3) % n, {M_XHEAD, M_XTAIL}),
                (xm3 + 4) % n, {M_XHEAD, M_XTAIL}),
                (xm3 + 5) % n, {M_XHEAD})

\* "dimple ~~|_|~~ ('8'), sink it": the test
DimpleDirs(d) ==
    /\ d[3] = d[1] /\ d[3] = d[5]
    /\ d[2] = (d[1] + 90) % 360
    /\ d[4] = (d[1] + 270) % 360

DimpleMatch(poly, xm3) == DimpleDirs(WindowDirs(poly, xm3))

\* the dimple branch, if (dm3 == dm2): xm2 |= TAIL, xm1 = HEAD|TAIL, x00 |= HEAD
DimpleMarkLeft(d, flags, n, xm3) ==
    IF d[0] = d[1]
    THEN FlagOr(FlagSet(FlagOr(flags, (xm3 + 1) % n, {M_TAIL}),
                        (xm3 + 2) % n, {M_HEAD, M_TAIL}),
                (xm3 + 3) % n, {M_HEAD})
    ELSE flags

\* the dimple branch, if (dp3 == dp2): x00 |= TAIL, xp1 = HEAD|TAIL, xp2 |= HEAD
DimpleMarkRight(d, flags, n, xm3) ==
    IF d[6] = d[5]
    THEN FlagOr(FlagSet(FlagOr(flags, (xm3 + 3) % n, {M_TAIL}),
                        (xm3 + 4) % n, {M_HEAD, M_TAIL}),
                (xm3 + 5) % n, {M_HEAD})
    ELSE flags

\* the flag updates of the dimple branch
DimpleMark(poly, flags, xm3) ==
    DimpleMarkRight(WindowDirs(poly, xm3),
                    DimpleMarkLeft(WindowDirs(poly, xm3), flags, Len(poly), xm3),
                    Len(poly), xm3)

\* the chicane test, including the two serif exceptions
ChicaneDirs(d) ==
    /\ d[2] = d[4]
    /\ ((d[3] + 270) % 360 = d[4] \/ (d[3] + 90) % 360 = d[4])
    /\ ~(d[1] = d[2] /\ d[3] = (d[2] + 270) % 360 /\ d[4] = d[2]
         /\ d[5] = (d[2] + 90) % 360 /\ d[6] = d[5])
    /\ ~(d[0] = d[1] /\ d[2] = (d[1] + 90) % 360
         /\ d[3] = (d[1] + 180) % 360 /\ d[4] = d[2] /\ d[5] = d[4])

ChicaneMatch(poly, xm3) == ChicaneDirs(WindowDirs(poly, xm3))

\* the chicane branch: xm1 |= TAIL, x00 = HEAD|TAIL, xp1 |= HEAD
ChicaneMarkMid(flags, n, xm3) ==
    FlagOr(FlagSet(FlagOr(flags, (xm3 + 2) % n, {M_TAIL}),
                   (xm3 + 3) % n, {M_HEAD, M_TAIL}),
           (xm3 + 4) % n, {M_HEAD})

\* the chicane branch, if (dp2 == d00): xp1 |= TAIL, xp2 |= HEAD
ChicaneMarkRight(d, flags, n, xm3) ==
    IF d[5] = d[3]
    THEN FlagOr(FlagOr(flags, (xm3 + 4) % n, {M_TAIL}), (xm3 + 5) % n, {M_HEAD})
    ELSE flags

\* the chicane branch, if (dm2 == d00): xm2 |= TAIL, xm1 |= HEAD
ChicaneMarkLeft(d, flags, n, xm3) ==
    IF d[1] = d[3]
    THEN FlagOr(FlagOr(flags, (xm3 + 1) % n, {M_TAIL}), (xm3 + 2) % n, {M_HEAD})
    ELSE flags

\* the flag updates of the chicane branch
ChicaneMark(poly, flags, xm3) ==
    ChicaneMarkLeft(WindowDirs(poly, xm3),
        ChicaneMarkRight(WindowDirs(poly, xm3),
                         ChicaneMarkMid(flags, Len(poly), xm3), Len(poly), xm3),
        Len(poly), xm3)

\* one iteration of the marking loop of n2_angle
MarkWindow(poly, flags, xm3) ==
    IF PimpleMatch(poly, xm3) THEN PimpleMark(flags, Len(poly), xm3)
    ELSE IF DimpleMatch(poly, xm3) THEN DimpleMark(poly, flags, xm3)
    ELSE IF ChicaneMatch(poly, xm3) THEN ChicaneMark(poly, flags, xm3)
    ELSE flags

\* the marking loop of n2_angle, from window xm3 on
RECURSIVE MarkLoop(_, _, _)
MarkLoop(poly, flags, xm3) ==
    IF xm3 >= Len(poly) THEN flags
    ELSE MarkLoop(poly, MarkWindow(poly, flags, xm3), xm3 + 1)

\* the test of the cut loop without the veto flags
CutAllowed_noveto(flags, ia, ib) ==
    M_TAIL \in At(flags, ia) /\ M_HEAD \in At(flags, ib)

\* the test of the cut loop: may a diagonal be put between edges ia and ib
CutAllowed(flags, ia, ib) ==
    /\ M_TAIL \in At(flags, ia) /\ M_HEAD \in At(flags, ib)
    /\ ~(M_XTAIL \in At(flags, ia) \/ M_XHEAD \in At(flags, ib))

\* "Shift nodal points": the end vertex of edge a is pulled back
ShiftEnd(e, da, sx, sy) ==
    IF da = 0 THEN [e EXCEPT !.end_vtx.y = @ - sy]
    ELSE IF da = 90 THEN [e EXCEPT !.end_vtx.x = @ - sx]
    ELSE IF da = 180 THEN [e EXCEPT !.end_vtx.y = @ + sy]
    ELSE IF da = 270 THEN [e EXCEPT !.end_vtx.x = @ + sx]
    ELSE e

\* "Shift nodal points": the start vertex of edge b is pushed forward
ShiftStart(e, db, sx, sy) ==
    IF db = 0 THEN [e EXCEPT !.start_vtx.y = @ + sy]
    ELSE IF db = 90 THEN [e EXCEPT !.start_vtx.x = @ + sx]
    ELSE IF db = 180 THEN [e EXCEPT !.start_vtx.y = @ - sy]
    ELSE IF db = 270 THEN [e EXCEPT !.start_vtx.x = @ - sx]
    ELSE e

\* s with v inserted after the (1-based) position k
InsertAfter(s, k, v) == SubSeq(s, 1, k) \o <<v>> \o SubSeq(s, k + 1, Len(s))

\* the cut loop body after the insertion: both nodal points are shifted; da
\* and db are taken before either edge is changed
CutShift(p1, ia, ib, sx, sy) ==
    [p1 EXCEPT ![ia + 1] = ShiftEnd(@, trivial_dir(At(p1, ia)), sx, sy),
               ![ib + 1] = ShiftStart(@, trivial_dir(At(p1, ib)), sx, sy)]

\* poly[ix].start_vtx = poly[ia].end_vtx; poly[ix].end_vtx = poly[ib].start_vtx
CutJoin(p3, ia, ib) ==
    [p3 EXCEPT ![ia + 2] = Edge(At(p3, ia).end_vtx, At(p3, ib).start_vtx)]

\* the cut loop body from the insertion on, p1 being the polygon with the
\* placeholder edge inserted: ib = (ia + 2) % poly.size()
CutInserted(p1, ia, sx, sy) ==
    CutJoin(CutShift(p1, ia, (ia + 2) % Len(p1), sx, sy), ia, (ia + 2) % Len(p1))

\* the body of the cut loop when a diagonal is inserted after edge ia
CutAt(poly, ia, sx, sy) ==
    CutInserted(InsertAfter(poly, ia + 1, Edge(Vtx(-64, -64), Vtx(-64, -64))),
                ia, sx, sy)

\* The cut loop of n2_angle from index ia on.  cuts collects, as indices of
\* the polygon before any insertion, the edges after which a diagonal went in.
RECURSIVE CutLoop(_, _, _, _, _, _)
CutLoop(poly, flags, ia, cuts, sx, sy) ==
    IF ia >= Len(poly) THEN [poly |-> poly, cuts |-> cuts]
    ELSE LET ib == (ia + 1) % Len(poly) IN
         IF ~CutAllowed(flags, ia, ib)
         THEN CutLoop(poly, flags, ia + 1, cuts, sx, sy)
         ELSE LET f1 == [flags EXCEPT ![ia + 1] = @ \ {M_TAIL}]
                  f2 == [f1 EXCEPT ![ib + 1] = @ \ {M_HEAD}]
              IN  CutLoop(CutAt(poly, ia, sx, sy), InsertAfter(f2, ia + 1, {}),
                          ia + 2, cuts \cup {ia - Cardinality(cuts)}, sx, sy)

\* poly.erase(std::remove_if(... start_vtx == end_vtx ...))
RemoveZeroLength(poly) == SelectSeq(poly, LAMBDA e : e.start_vtx # e.end_vtx)

\* the final loop of n2_angle: join consecutive edges of the same direction;
\* k is the (1-based) position of p_iter
RECURSIVE MergeLoop(_, _)
MergeLoop(poly, k) ==
    IF k >= Len(poly) THEN poly
    ELSE IF trivial_dir(poly[k]) # trivial_dir(poly[k + 1])
    THEN MergeLoop(poly, k + 1)
    ELSE MergeLoop(SubSeq([poly EXCEPT ![k].end_vtx = poly[k + 1].end_vtx], 1, k)
                     \o SubSeq(poly, k + 2, Len(poly)), k)

\* n2_angle after the cut loop
N2Finish(cut) ==
    [poly |-> MergeLoop(RemoveZeroLength(cut.poly), 1), cuts |-> cut.cuts]

\* n2_angle: the polygon it leaves in poly, and the vertices it cut
n2_angle(poly, sx, sy) ==
    N2Finish(CutLoop(poly, MarkLoop(poly, [i \in 1..Len(poly) |-> {}], 0),
                     0, {}, sx, sy))

(***************************************************************************)
(* Vectorizer: the entry points simple(), n1(), n2() as steps              *)
(***************************************************************************)
\* the scale factors font::save_sfd derives from the "ssf" property a/b:
\* m_ssfx = 2 * a, m_ssfy = 2 * b; a is not tested, a property with b = 0
\* is ignored; without the property both are 2
SsfNumerators == 0..MaxSsf
SsfDenominators == 1..MaxSsf
SsfFactors(a, b) == <<2 * a, 2 * b>>
\* the pairs (m_ssfx, m_ssfy) save_sfd_glyph hands to the vectorizer
ScaleFactors ==
    {<<default_scale_factor, default_scale_factor>>}
        \cup {SsfFactors(a, b) : a \in SsfNumerators, b \in SsfDenominators}

\* the glyphs of the general vectorizer runs: every bitmap of every size up
\* to MaxW x MaxH
SmallGlyphs == UNION {AllGlyphs(w, h) : w \in 1..MaxW, h \in 1..MaxH}

\* save_sfd_glyph constructs the vectorizer for one glyph
VecStart(glyphs, algs, scales) ==
    /\ m_glyph \in glyphs
    /\ m_descent \in 0..MaxDescent
    /\ \E s \in scales : scale_factor_x = s[1] /\ scale_factor_y = s[2]
    /\ vt \in algs
    /\ pc = "start"
    /\ emap = {}
    /\ pmap = <<>>
    /\ n2log = <<>>
    /\ VecOnly

\* make_squares(), first statement of simple() and n2()
MakeSquares ==
    /\ pc = "start"
    /\ vt \in {V_SIMPLE, V_N2, V_N2EV}
    /\ emap' = emap \cup make_squares
    /\ pc' = "emitted"
    /\ UNCHANGED nonvec
    /\ UNCHANGED <<m_glyph, m_descent, scale_factor_x, scale_factor_y, vt,
                   pmap, n2log>>

\* the emission loop of n1()
N1Emit ==
    /\ pc = "start"
    /\ vt = V_N1
    /\ emap' = emap \cup n1_emit
    /\ pc' = "emitted"
    /\ UNCHANGED nonvec
    /\ UNCHANGED <<m_glyph, m_descent, scale_factor_x, scale_factor_y, vt,
                   pmap, n2log>>

\* internal_edge_delete()
InternalEdgeDelete ==
    /\ pc = "emitted"
    /\ emap' = internal_edge_delete(emap)
    /\ pc' = "popping"
    /\ UNCHANGED nonvec
    /\ UNCHANGED <<m_glyph, m_descent, scale_factor_x, scale_factor_y, vt,
                   pmap, n2log>>

\* one round of the loop of simple() / n1(): pop_poly(P_SIMPLIFY_LINES)
\* returned a polygon
PopPolySimplify ==
    /\ pc = "popping"
    /\ vt \in {V_SIMPLE, V_N1}
    /\ emap # {}
    /\ \E r \in {pop_poly(emap, {P_SIMPLIFY_LINES})} :
         /\ emap' = r.emap
         /\ pmap' = Append(pmap, r.poly)
    /\ UNCHANGED nonvec
    /\ UNCHANGED <<m_glyph, m_descent, scale_factor_x, scale_factor_y, vt,
                   pc, n2log>>

\* the flags n2() passes on to pop_poly: flags &= P_ISTHMUS
N2Flags == IF vt = V_N2EV THEN {P_ISTHMUS} ELSE {}

\* one round of the loop of n2(): pop_poly(flags) returned a polygon, which
\* goes through n2_angle
PopPolyN2 ==
    /\ pc = "popping"
    /\ vt \in {V_N2, V_N2EV}
    /\ emap # {}
    /\ \E r \in {pop_poly(emap, N2Flags)} :
       \E a \in {n2_angle(r.poly, scale_factor_x \div 2, scale_factor_y \div 2)} :
         /\ emap' = r.emap
         /\ pmap' = Append(pmap, a.poly)
         /\ n2log' = Append(n2log, [poly |-> r.poly, cuts |-> a.cuts])
    /\ UNCHANGED nonvec
    /\ UNCHANGED <<m_glyph, m_descent, scale_factor_x, scale_factor_y, vt, pc>>

\* pop_poly of n2() divides by zero in next_edge (undefined behaviour) and
\* the process ends there; PopPolyN2 is the run that goes on with a
\* quotient of 0
PopPolyTrap ==
    /\ pc = "popping"
    /\ vt \in {V_N2, V_N2EV}
    /\ emap # {}
    /\ P_ISTHMUS \in N2Flags
    /\ (scale_factor_x = 0 \/ scale_factor_y = 0)
    /\ ZeroWalk(emap \ {FirstEdge(emap)}, <<FirstEdge(emap)>>,
                trivial_dir(FirstEdge(emap)), N2Flags)
    /\ pc' = "trap"
    /\ UNCHANGED nonvec
    /\ UNCHANGED <<m_glyph, m_descent, scale_factor_x, scale_factor_y, vt,
                   emap, pmap, n2log>>

\* pop_poly returned an empty polygon: the loop ends, pmap is returned
VecReturn ==
    /\ pc = "popping"
    /\ emap = {}
    /\ pc' = "done"
    /\ UNCHANGED nonvec
    /\ UNCHANGED <<m_glyph, m_descent, scale_factor_x, scale_factor_y, vt,
                   emap, pmap, n2log>>

VecInit == VecStart(SmallGlyphs, {V_SIMPLE, V_N1, V_N2, V_N2EV}, ScaleFactors)

VecNext ==
    \/ MakeSquares
    \/ N1Emit
    \/ InternalEdgeDelete
    \/ PopPolySimplify
    \/ PopPolyN2
    \/ PopPolyTrap
    \/ VecReturn

SpecVec == VecInit /\ [][VecNext]_vars

(***************************************************************************)
(* n2() on stems with one-pixel bumps                                      *)
(***************************************************************************)
\* A stem StemW pixels long and StemH - 1 pixels thick with one-pixel
\* bumps at the positions in bumps on one of its four sides: side 0 is the
\* top of a horizontal stem, 1 the bottom, 2 / 3 the left / right of a
\* vertical stem.
StemGlyph(bumps, side) ==
    IF side = 0
    THEN GlyphOf(StemW, StemH,
           {c \in Cells(StemW, StemH) : c[2] > 0 \/ c[1] \in bumps})
    ELSE IF side = 1
    THEN GlyphOf(StemW, StemH,
           {c \in Cells(StemW, StemH) : c[2] < StemH - 1 \/ c[1] \in bumps})
    ELSE IF side = 2
    THEN GlyphOf(StemH, StemW,
           {c \in Cells(StemH, StemW) : c[1] > 0 \/ c[2] \in bumps})
    ELSE GlyphOf(StemH, StemW,
           {c \in Cells(StemH, StemW) : c[1] < StemH - 1 \/ c[2] \in bumps})

StemGlyphs ==
    {StemGlyph(bumps, side) : bumps \in SUBSET (0..(StemW - 1)), side \in 0..3}

StemInit == VecStart(StemGlyphs, {V_N2}, ScaleFactors)

N2Next ==
    \/ MakeSquares
    \/ InternalEdgeDelete
    \/ PopPolyN2
    \/ VecReturn

SpecStem == StemInit /\ [][N2Next]_vars

(***************************************************************************)
(* n2() at the default scale factors on 5x5 glyphs with one pixel per row  *)
(***************************************************************************)
\* the 5x5 glyph with, in each row y, only the pixel of column col[y] set
RowGlyph(col) == GlyphOf(5, 5, {<<col[y], y>> : y \in 0..4})

\* rows 10000, 01000, 00100, 00010, 00001
DiagonalGlyph == RowGlyph([y \in 0..4 |-> y])

DiagInit == VecStart({RowGlyph(col) : col \in [0..4 -> 0..4]}, {V_N2},
                     {<<default_scale_factor, default_scale_factor>>})

SpecDiag == DiagInit /\ [][N2Next]_vars

(***************************************************************************)
(* Vectorizer: properties                                                  *)
(***************************************************************************)
\* a polygon is closed
Closed(poly) ==
    \A i \in 1..Len(poly) :
        poly[i].end_vtx = poly[(i % Len(poly)) + 1].start_vtx

\* C1: every polygon returned by simple(), n1(), n2() and n2(P_ISTHMUS) is
\* closed: each edge ends where the next one starts, and the last edge ends
\* where the first one starts; for n2 this is the polygon as n2_angle left it.
C1_Closed == \A k \in 1..Len(pmap) : Len(pmap[k]) > 0 /\ Closed(pmap[k])

\* a finished n2 run in which n2_angle inserted diagonals into a polygon and
\* also dropped or merged edges of it
C1_Witness ==
    /\ pc = "done"
    /\ vt \in {V_N2, V_N2EV}
    /\ \E k \in 1..Len(pmap) :
         /\ n2log[k].cuts # {}
         /\ Len(pmap[k]) < Len(n2log[k].poly) + Cardinality(n2log[k].cuts)

\* the length of the longest polygon of a list
MaxPolyLen(polys) ==
    IF polys = <<>> THEN 0
    ELSE CHOOSE n \in {Len(polys[k]) : k \in 1..Len(polys)} :
           \A k \in 1..Len(polys) : Len(polys[k]) <= n

\* twice the signed area of a polygon by the shoelace formula, counted
\* positive for a clockwise outline (y pointing up)
RECURSIVE Area2From(_, _)
Area2From(poly, i) ==
    IF i > Len(poly) THEN 0
    ELSE poly[i].end_vtx.x * poly[i].start_vtx.y
         - poly[i].start_vtx.x * poly[i].end_vtx.y
         + Area2From(poly, i + 1)

Area2(poly) == Area2From(poly, 1)

Sign(n) == IF n > 0 THEN 1 ELSE IF n < 0 THEN -1 ELSE 0

\* Does edge e pass to the left of the point (py, px)/4 on the horizontal
\* line through it?  Edge coordinates are multiplied by 4, so that pixel
\* centres and points next to an edge are integral; an edge counts when
\* the line meets it in [lower end, upper end).
CrossesLeftOf(e, py, px) ==
    LET y1 == 4 * e.start_vtx.y
        x1 == 4 * e.start_vtx.x
        y2 == 4 * e.end_vtx.y
        x2 == 4 * e.end_vtx.x
    IN  /\ (y1 <= py /\ py < y2) \/ (y2 <= py /\ py < y1)
        /\ ((x1 - px) * (y2 - y1) + (py - y1) * (x2 - x1)) * Sign(y2 - y1) < 0

\* even-odd rule for one polygon
InsidePoly(poly, py, px) ==
    Cardinality({i \in 1..Len(poly) : CrossesLeftOf(poly[i], py, px)}) % 2 = 1

\* even-odd rule for a list of polygons
InsidePolys(polys, py, px) ==
    Cardinality({ki \in {<<k, i>> : k \in 1..Len(polys), i \in 1..MaxPolyLen(polys)} :
                   /\ ki[2] <= Len(polys[ki[1]])
                   /\ CrossesLeftOf(polys[ki[1]][ki[2]], py, px)}) % 2 = 1

\* The output units per pixel: n1() works on a fixed 2x grid, simple() and
\* n2() on the scale factors.
UnitX == IF vt = V_N1 THEN 2 ELSE scale_factor_x
UnitY == IF vt = V_N1 THEN 2 ELSE scale_factor_y

\* the centre of bitmap pixel (x, y) in output coordinates times 4: the
\* descent shift and the vertical flip of make_squares, then the scale
CentreY(y) == 4 * UnitY * (m_glyph.m_size.h - 1 - y - m_descent) + 2 * UnitY
CentreX(x) == 4 * UnitX * x + 2 * UnitX

GlyphCells == Cells(m_glyph.m_size.w, m_glyph.m_size.h)
PixelSet(g, x, y) == TestBit(g.m_data, y * g.m_size.w + x)

\* C2: for every glyph, filling the polygons returned by simple() by the
\* even-odd rule (scale factors and descent shift undone) sets exactly the
\* pixels that are set in the glyph.
C2_SimpleRaster ==
    (pc = "done" /\ vt = V_SIMPLE) =>
        \A c \in GlyphCells :
            InsidePolys(pmap, CentreY(c[2]), CentreX(c[1]))
                <=> PixelSet(m_glyph, c[1], c[2])

\* simple() has returned several polygons for a glyph that is shifted by a
\* descent and has both set and unset pixels
C2_Witness ==
    /\ pc = "done" /\ vt = V_SIMPLE
    /\ m_descent > 0
    /\ Len(pmap) >= 2
    /\ \E c \in GlyphCells : PixelSet(m_glyph, c[1], c[2])
    /\ \E c \in GlyphCells : ~PixelSet(m_glyph, c[1], c[2])

\* the points just right and just left of the middle of an edge (times 4)
MidY(e) == 2 * (e.start_vtx.y + e.end_vtx.y)
MidX(e) == 2 * (e.start_vtx.x + e.end_vtx.x)
NormY(e) == -Sign(e.end_vtx.x - e.start_vtx.x)
NormX(e) == Sign(e.end_vtx.y - e.start_vtx.y)
RightIsInside(poly) ==
    InsidePoly(poly, MidY(poly[1]) + NormY(poly[1]), MidX(poly[1]) + NormX(poly[1]))
LeftIsInside(poly) ==
    InsidePoly(poly, MidY(poly[1]) - NormY(poly[1]), MidX(poly[1]) - NormX(poly[1]))

\* the polygon has (the centre of) a set / an unset pixel on its inside
HasSetInside(poly) ==
    \E c \in GlyphCells : /\ PixelSet(m_glyph, c[1], c[2])
                          /\ InsidePoly(poly, CentreY(c[2]), CentreX(c[1]))
HasUnsetInside(poly) ==
    \E c \in GlyphCells : /\ ~PixelSet(m_glyph, c[1], c[2])
                          /\ InsidePoly(poly, CentreY(c[2]), CentreX(c[1]))

\* C3: every polygon the vectorizer returns has a non-zero signed area.  A
\* polygon with set pixels on its inside (its inside to the right of its
\* edges) has strictly positive area, the sign of the square set() draws for
\* one pixel; a polygon around an enclave of unset pixels (its inside to the
\* left of its edges) has strictly negative area; each polygon is one of
\* the two.
C3_Orientation ==
    /\ Area2(SquareOutline(0, 0)) > 0
    /\ \A k \in 1..Len(pmap) :
         /\ Area2(pmap[k]) # 0
         /\ \/ RightIsInside(pmap[k]) /\ HasSetInside(pmap[k]) /\ Area2(pmap[k]) > 0
            \/ LeftIsInside(pmap[k]) /\ HasUnsetInside(pmap[k]) /\ Area2(pmap[k]) < 0

\* a finished run that returned an outline with set pixels inside and also
\* the outline of an enclave
C3_Witness ==
    /\ pc = "done"
    /\ \E k \in 1..Len(pmap) : HasSetInside(pmap[k]) /\ Area2(pmap[k]) > 0
    /\ \E k \in 1..Len(pmap) : ~HasSetInside(pmap[k]) /\ HasUnsetInside(pmap[k])
                               /\ Area2(pmap[k]) < 0

\* the vertices at which n2_angle put a diagonal, as the edges of the
\* extracted polygon (0-based) that end there, and the end vertices of a polygon
CutsOf(k) == n2log[k].cuts
EndVertices(poly) == {poly[i].end_vtx : i \in 1..Len(poly)}

\* the four edges, from xm2 to xp1, whose end vertices join the edges xm2 ..
\* xp2 of the window that starts at edge xm3 of a polygon of n edges
BumpEdges(n, xm3) == {(xm3 + j) % n : j \in 1..4}

\* C4: whenever the pimple pattern matches a window (centred on edge i) of a
\* polygon that n2() extracted with flag 0, n2_angle puts no diagonal at any
\* of the four vertices that join the edges i-2 .. i+2, whatever else matches
\* overlapping windows and wherever the window lies (it may wrap around the
\* polygon's start); the four corners of the bump are vertices of the
\* polygon n2_angle returns.
C4_PimpleKept ==
    vt = V_N2 =>
      \A k \in 1..Len(n2log) :
        \A xm3 \in 0..(Len(n2log[k].poly) - 1) :
          PimpleMatch(n2log[k].poly, xm3) =>
            /\ CutsOf(k) \cap BumpEdges(Len(n2log[k].poly), xm3) = {}
            /\ \A j \in BumpEdges(Len(n2log[k].poly), xm3) :
                 At(n2log[k].poly, j).end_vtx \in EndVertices(pmap[k])

\* a finished n2() run with a polygon in which a pimple window that wraps
\* around the polygon's start matched and in which diagonals were put at
\* other vertices
C4_Witness ==
    /\ pc = "done" /\ vt = V_N2
    /\ \E k \in 1..Len(n2log) :
         /\ CutsOf(k) # {}
         /\ \E xm3 \in 0..(Len(n2log[k].poly) - 1) :
              /\ PimpleMatch(n2log[k].poly, xm3)
              /\ xm3 + 6 >= Len(n2log[k].poly)

\* the bounding box of a set of vertices
BBoxOf(vs) ==
    [ymin |-> MinOf({v.y : v \in vs}), ymax |-> -MinOf({-v.y : v \in vs}),
     xmin |-> MinOf({v.x : v \in vs}), xmax |-> -MinOf({-v.x : v \in vs})]

\* the vertices of a polygon and of a list of polygons
VerticesOf(poly) ==
    {poly[i].start_vtx : i \in 1..Len(poly)} \cup {poly[i].end_vtx : i \in 1..Len(poly)}
AllVertices(polys) == UNION {VerticesOf(polys[k]) : k \in 1..Len(polys)}

\* the bitmap's bounding box in output coordinates: the whole canvas,
\* scaled, and shifted down by the descent
ScaledBBox ==
    [ymin |-> -m_descent * scale_factor_y,
     ymax |-> (m_glyph.m_size.h - m_descent) * scale_factor_y,
     xmin |-> 0,
     xmax |-> m_glyph.m_size.w * scale_factor_x]

\* n2() has returned for the diagonal glyph at the default scale factors
DiagonalDone ==
    /\ pc = "done" /\ vt = V_N2 /\ m_glyph = DiagonalGlyph
    /\ scale_factor_x = default_scale_factor
    /\ scale_factor_y = default_scale_factor

\* C5 as the specification states it: n2() on the diagonal glyph yields
\* exactly one polygon, whose bounding box is the scaled bounding box of the
\* bitmap and which has exactly 4 edges.
C5_OnePolygon ==
    DiagonalDone =>
        /\ Len(pmap) = 1
        /\ BBoxOf(VerticesOf(pmap[1])) = ScaledBBox
        /\ Len(pmap[1]) = 4

\* the outlines of the pixel squares of the glyph, as sets of edges
PixelSquares ==
    {set(c[1], m_glyph.m_size.h - 1 - c[2] - m_descent) :
       c \in {d \in GlyphCells : PixelSet(m_glyph, d[1], d[2])}}

\* C5 (amended): n2() on the diagonal glyph at the default scale factors
\* yields exactly five polygons, one for each set pixel: each is the square
\* outline of its pixel with exactly 4 edges, no diagonal is put in, and the
\* bounding box of the five polygons together is the scaled bounding box of
\* the bitmap.
C5_FiveSquares ==
    DiagonalDone =>
        /\ Len(pmap) = 5
        /\ \A k \in 1..Len(pmap) : Len(pmap[k]) = 4 /\ CutsOf(k) = {}
        /\ {{pmap[k][i] : i \in 1..Len(pmap[k])} : k \in 1..Len(pmap)} = PixelSquares
        /\ BBoxOf(AllVertices(pmap)) = ScaledBBox

\* n2() has returned for the diagonal glyph, with a descent shift
C5_Witness == DiagonalDone /\ m_descent > 0 /\ Len(pmap) > 0

(***************************************************************************)
(* unicode_map                                                             *)
(***************************************************************************)
Indices == 0..MaxIdx
CodePoints == 1..MaxCp

\* std::map: the map f with key k set to v
MapPut(f, k, v) == [x \in (DOMAIN f) \cup {k} |-> IF x = k THEN v ELSE f[x]]

\* std::map::emplace(k, v).first->second: an existing entry is kept
Emplaced(f, k, v) == IF k \in DOMAIN f THEN f ELSE MapPut(f, k, v)

\* add_i2u on m_i2u: emplace(idx, {}) and then set.emplace(uc)
AddToI2u(i2u, idx, uc) ==
    [Emplaced(i2u, idx, {}) EXCEPT ![idx] = @ \cup {uc}]

\* add_i2u on m_u2i, had the assignment after a failed emplace been left out
AddToU2i_keep(u2i, uc, idx) == Emplaced(u2i, uc, idx)

\* add_i2u on m_u2i: emplace(uc, idx), and assignment if uc was present
AddToU2i(u2i, uc, idx) ==
    IF uc \in DOMAIN u2i THEN [u2i EXCEPT ![uc] = idx] ELSE Emplaced(u2i, uc, idx)

\* unicode_map::to_unicode
to_unicode(i2u, idx) == IF idx \notin DOMAIN i2u THEN {idx} ELSE i2u[idx]

\* unicode_map::to_index
to_index(u2i, uc) == IF uc \notin DOMAIN u2i THEN -1 ELSE u2i[uc]

\* the index swap_idx(a, b) turns an index into
SwapKey(k, a, b) == IF k = a THEN b ELSE IF k = b THEN a ELSE k

\* the first loop of swap_idx, had it only moved a to b
SwapU2i_oneway(u2i, a, b) ==
    [uc \in DOMAIN u2i |-> IF u2i[uc] = a THEN b ELSE u2i[uc]]

\* the first loop of swap_idx: the values of m_u2i
SwapU2i(u2i, a, b) == [uc \in DOMAIN u2i |-> SwapKey(u2i[uc], a, b)]

\* swap_idx, had it left m_i2u alone
SwapI2u_skip(i2u, a, b) == i2u

\* the second loop of swap_idx: new_i2u.emplace(key, e.second) for the
\* entries in key order; of two entries with one new key the first stays
SwapI2u(i2u, a, b) ==
    [k \in {SwapKey(j, a, b) : j \in DOMAIN i2u} |->
        i2u[MinOf({j \in DOMAIN i2u : SwapKey(j, a, b) = k})]]

\* no run of swap_idx calls is under way
NoSwaps == [n |-> 0, a |-> 0, b |-> 0, i2u |-> <<>>, u2i |-> <<>>]

\* the run of equal swap_idx calls after one more swap_idx(a, b)
SwapLogged(log, a, b, i2u, u2i) ==
    IF log.n = 1 /\ log.a = a /\ log.b = b
    THEN [log EXCEPT !.n = 2]
    ELSE [n |-> 1, a |-> a, b |-> b, i2u |-> i2u, u2i |-> u2i]

\* a default-constructed unicode_map
MapInit ==
    /\ m_i2u = <<>>
    /\ m_u2i = <<>>
    /\ last_idx = [uc \in CodePoints |-> -1]
    /\ swap_log = NoSwaps
    /\ MapOnly

\* unicode_map::add_i2u(idx, uc)
AddI2U(idx, uc) ==
    /\ m_i2u' = AddToI2u(m_i2u, idx, uc)
    /\ m_u2i' = AddToU2i(m_u2i, uc, idx)
    /\ last_idx' = IF last_idx = <<>> THEN <<>> ELSE [last_idx EXCEPT ![uc] = idx]
    /\ swap_log' = NoSwaps
    /\ UNCHANGED nonmap

\* unicode_map::swap_idx(a, b)
SwapIdx(a, b) ==
    /\ m_u2i' = SwapU2i(m_u2i, a, b)
    /\ m_i2u' = SwapI2u(m_i2u, a, b)
    /\ swap_log' = SwapLogged(swap_log, a, b, m_i2u, m_u2i)
    /\ last_idx' = <<>>
    /\ UNCHANGED nonmap

AddNext == \E idx \in Indices, uc \in CodePoints : AddI2U(idx, uc)

MapNext ==
    \/ \E idx \in Indices, uc \in CodePoints : AddI2U(idx, uc)
    \/ \E a \in Indices, b \in Indices : SwapIdx(a, b)

\* sequences of add_i2u calls
SpecAdd == MapInit /\ [][AddNext]_vars
\* sequences of add_i2u and swap_idx calls
SpecMap == MapInit /\ [][MapNext]_vars

\* C6: after any sequence of add_i2u and swap_idx calls on an empty map,
\* every pair (cp -> i) of m_u2i has cp in m_i2u[i]; that is, to_index(cp) = i
\* implies that cp is in to_unicode(i).
C6_Consistent ==
    /\ \A uc \in DOMAIN m_u2i :
         m_u2i[uc] \in DOMAIN m_i2u /\ uc \in m_i2u[m_u2i[uc]]
    /\ \A uc \in CodePoints :
         to_index(m_u2i, uc) # -1 =>
             uc \in to_unicode(m_i2u, to_index(m_u2i, uc))

\* two equal swap_idx(a, b) calls, a # b, have just been made on a map in
\* which a code point is listed under two indices and maps to a
C6_Witness ==
    /\ swap_log.n = 2 /\ swap_log.a # swap_log.b
    /\ \E uc \in DOMAIN m_u2i :
         /\ m_u2i[uc] = swap_log.a
         /\ \E i \in DOMAIN m_i2u : i # swap_log.a /\ uc \in m_i2u[i]

\* C7: after any sequence of add_i2u calls, to_index(cp) is the index of
\* the most recent add_i2u(i, cp) for that cp, and -1 for a cp that was never
\* added.
C7_LastAdd == \A uc \in CodePoints : to_index(m_u2i, uc) = last_idx[uc]

\* a code point was added under two indices, another one never
C7_Witness ==
    /\ \E uc \in CodePoints :
         /\ last_idx[uc] # -1
         /\ \E i \in DOMAIN m_i2u : i # last_idx[uc] /\ uc \in m_i2u[i]
    /\ \E uc \in CodePoints : last_idx[uc] = -1 /\ to_index(m_u2i, uc) = -1

\* C8: swap_idx(a, b) called twice, for any map and any indices a and b
\* (equal ones, ones without an m_i2u entry, ones no code point maps to),
\* leaves m_i2u and m_u2i exactly as they were before the first call.
C8_SwapTwice ==
    swap_log.n = 2 => m_i2u = swap_log.i2u /\ m_u2i = swap_log.u2i

\* swap_idx(a, b) was called twice with a # b, where a had an m_i2u entry
\* and code points mapped to it and b had neither
C8_Witness ==
    /\ swap_log.n = 2 /\ swap_log.a # swap_log.b
    /\ swap_log.a \in DOMAIN swap_log.i2u
    /\ swap_log.b \notin DOMAIN swap_log.i2u
    /\ \E uc \in DOMAIN swap_log.u2i : swap_log.u2i[uc] = swap_log.a

(***************************************************************************)
(* glyph: the row-padded representation                                    *)
(***************************************************************************)
\* (size.w + 7) / 8
BytePerLine(size) == (size.w + 7) \div 8

bytes_per_glyph_rpad(size) == size.h * BytePerLine(size)

\* the buffer index without the row offset
RpadIndex_norow(y, byteperline, qbyte) == qbyte

\* y*byteperline+qpos.byte: the index of the byte of the row-padded buffer
\* that holds the pixel of row y whose bitpos within the row has byte qbyte
RpadIndex(y, byteperline, qbyte) == y * byteperline + qbyte

\* glyph::as_rowpad: the bytes of the returned string.  Byte i gets the
\* mask of every set pixel (x, y) with y*byteperline + qpos.byte = i.
as_rowpad(g) ==
    [i \in 1..bytes_per_glyph_rpad(g.m_size) |->
        {bitpos(c[1]).bybit :
           c \in {d \in Cells(g.m_size.w, g.m_size.h) :
                    /\ RpadIndex(d[2], BytePerLine(g.m_size), bitpos(d[1]).byte) = i - 1
                    /\ TestBit(g.m_data, d[2] * g.m_size.w + d[1])}}]

\* buf[y*byteperline+qpos.byte] & qpos.mask
RpadBit(buf, size, x, y) ==
    bitpos(x).bybit \in buf[RpadIndex(y, BytePerLine(size), bitpos(x).byte) + 1]

\* glyph::create_from_rpad: byte i of ng.m_data gets the mask of every
\* pixel that is set in buf
create_from_rpad(size, buf) ==
    [m_size |-> size,
     m_data |-> [i \in 1..bytes_per_glyph(size) |->
        {bitpos(c[2] * size.w + c[1]).bybit :
           c \in {d \in Cells(size.w, size.h) :
                    /\ bitpos(d[2] * size.w + d[1]).byte = i - 1
                    /\ RpadBit(buf, size, d[1], d[2])}}]]

\* glyph::invert: every byte of m_data is complemented
invert(g) == [g EXCEPT !.m_data = [i \in DOMAIN g.m_data |-> (0..7) \ g.m_data[i]]]

\* the subsets of S of at most k elements
RECURSIVE UpTo(_, _)
UpTo(S, k) ==
    IF k = 0 THEN {{}}
    ELSE UpTo(S, k - 1) \cup {t \cup {c} : t \in UpTo(S, k - 1), c \in S}

\* glyphs with little ink, and their inversions (whose unused bits of the
\* last byte are set)
InkGlyphs(w, h) ==
    {GlyphOf(w, h, pix) : pix \in UpTo(Cells(w, h), MaxInk)}
      \cup {invert(GlyphOf(w, h, pix)) : pix \in UpTo(Cells(w, h), MaxInk)}

RpadInit ==
    /\ rp_glyph \in UNION {InkGlyphs(w, h) : w \in 1..RowW, h \in 1..RowH}
    /\ rp_buf = <<>>
    /\ rp_ng = <<>>
    /\ rp_pc = "glyph"
    /\ RpadOnly

\* glyph::as_rowpad
AsRowpad ==
    /\ rp_pc = "glyph"
    /\ rp_buf' = as_rowpad(rp_glyph)
    /\ rp_pc' = "rowpad"
    /\ UNCHANGED <<rp_glyph, rp_ng>>
    /\ UNCHANGED nonrp

\* glyph::create_from_rpad on the size of the glyph and that string
CreateFromRpad ==
    /\ rp_pc = "rowpad"
    /\ rp_ng' = create_from_rpad(rp_glyph.m_size, rp_buf)
    /\ rp_pc' = "created"
    /\ UNCHANGED <<rp_glyph, rp_buf>>
    /\ UNCHANGED nonrp

RpadNext == AsRowpad \/ CreateFromRpad

SpecRpad == RpadInit /\ [][RpadNext]_vars

\* C9: for every glyph g of any size (widths that are no multiple of 8
\* included), create_from_rpad(g.size, as_rowpad(g)) has the size of g and
\* the value of g at every pixel.
C9_RoundTrip ==
    rp_pc = "created" =>
        /\ rp_ng.m_size = rp_glyph.m_size
        /\ \A c \in Cells(rp_glyph.m_size.w, rp_glyph.m_size.h) :
             PixelSet(rp_ng, c[1], c[2]) <=> PixelSet(rp_glyph, c[1], c[2])

\* the round trip was made for a glyph more than 8 pixels wide with two
\* rows, a set pixel in the second byte of its second row and an unset pixel
C9_Witness ==
    /\ rp_pc = "created"
    /\ rp_glyph.m_size.w > 8 /\ rp_glyph.m_size.w % 8 # 0
    /\ rp_glyph.m_size.h > 1
    /\ PixelSet(rp_glyph, 8, 1)
    /\ \E c \in Cells(rp_glyph.m_size.w, rp_glyph.m_size.h) :
         ~PixelSet(rp_glyph, c[1], c[2])

(***************************************************************************)
(* font: crop                                                              *)
(***************************************************************************)
\* vfpos | vfsize
vfrect(x, y, w, h) == [x |-> x, y |-> y, w |-> w, h |-> h]

\* the pixels (x, y) of g the two loops of copy_rect_to visit: the loop
\* variables are unsigned and start at sof.x, sof.y
SourceCells(g, sof) ==
    IF sof.x < 0 \/ sof.y < 0 THEN {}
    ELSE {c \in Cells(g.m_size.w, g.m_size.h) :
            /\ c[1] >= sof.x /\ c[1] < sof.x + sof.w
            /\ c[2] >= sof.y /\ c[2] < sof.y + sof.h}

\* ox = pof.x + x - sof.x, oy = pof.y + y - sof.y
TargetOf(c, sof, pof) == <<pof.x + c[1] - sof.x, pof.y + c[2] - sof.y>>

\* the visited pixels, had none been skipped for ox >= pof.w
CopiedCells_noclip(g, sof, pof) ==
    {c \in SourceCells(g, sof) :
        /\ TargetOf(c, sof, pof)[1] >= 0 /\ TargetOf(c, sof, pof)[2] >= 0
        /\ TargetOf(c, sof, pof)[2] < pof.h}

\* the visited pixels that are not skipped by the continue
CopiedCells(g, sof, pof) ==
    {c \in SourceCells(g, sof) :
        /\ TargetOf(c, sof, pof)[1] >= 0 /\ TargetOf(c, sof, pof)[2] >= 0
        /\ TargetOf(c, sof, pof)[1] < pof.w
        /\ TargetOf(c, sof, pof)[2] < pof.h}

\* opos = oy * out.m_size.w + ox
OutBit(c, sof, pof, outw) ==
    TargetOf(c, sof, pof)[2] * outw + TargetOf(c, sof, pof)[1]

\* the last pixel, in the order of the loops, of those written to bit n
LastWriter(g, writers) ==
    CHOOSE c \in writers :
        \A d \in writers :
            d[2] * g.m_size.w + d[1] <= c[2] * g.m_size.w + c[1]

\* bit n of out after the loops.  With overwrite: the value of the last
\* source pixel written to it, or the bit of other if none was.  Without:
\* the bit of other, or set if a set source pixel was written to it.
OutBitValue(g, other, n, writers, overwrite) ==
    IF writers = {} THEN TestBit(other.m_data, n)
    ELSE IF overwrite
    THEN PixelSet(g, LastWriter(g, writers)[1], LastWriter(g, writers)[2])
    ELSE \/ TestBit(other.m_data, n)
         \/ \E c \in writers : PixelSet(g, c[1], c[2])

\* glyph::copy_rect_to
copy_rect_to(g, sof, other, pof, overwrite) ==
    [m_size |-> other.m_size,
     m_data |-> [i \in DOMAIN other.m_data |->
        {b \in 0..7 :
           OutBitValue(g, other, (i - 1) * 8 + (7 - b),
               {c \in CopiedCells(g, sof, pof) :
                   OutBit(c, sof, pof, other.m_size.w) = (i - 1) * 8 + (7 - b)},
               overwrite)}]]

\* font::copy_to_blank: for (auto &g : m_glyph)
\*     g = g.copy_rect_to(src, glyph(dst), dst)
\* (overwrite has its default, true)
copy_to_blank(glyphs, src, dst) ==
    [k \in DOMAIN glyphs |->
        copy_rect_to(glyphs[k], src,
                     BlankGlyph([w |-> dst.w, h |-> dst.h]), dst, TRUE)]

\* vf_crop after strtol: the font it leaves behind
vf_crop(glyphs, x, y, w, h) ==
    IF x < 0 \/ y < 0 THEN glyphs
    ELSE IF w <= 0 \/ h <= 0 THEN glyphs
    ELSE IF Len(glyphs) > 0
         THEN copy_to_blank(glyphs,
                  vfrect(x, y, glyphs[1].m_size.w, glyphs[1].m_size.h),
                  vfrect(0, 0, w, h))
         ELSE glyphs

\* glyphs as load_bdf (one BBX per glyph) and load_hex (8 or 16 pixels
\* wide) make them: the glyphs of one font need not have one size
FontGlyphs == UNION {AllGlyphs(w, h) : w \in 1..FontW, h \in 1..FontH}

RECURSIVE FontsOfLen(_)
FontsOfLen(n) ==
    IF n = 0 THEN {<<>>}
    ELSE {Append(f, g) : f \in FontsOfLen(n - 1), g \in FontGlyphs}

FontInit ==
    /\ f_m_glyph \in UNION {FontsOfLen(n) : n \in 1..MaxGlyphs}
    /\ f_before = f_m_glyph
    /\ f_cmd = <<>>
    /\ FontOnly

\* the command "crop x y w h", the one command of the run
Crop(x, y, w, h) ==
    /\ f_m_glyph # <<>>
    /\ f_cmd = <<>>
    /\ f_before' = f_m_glyph
    /\ f_cmd' = <<x, y, w, h>>
    /\ f_m_glyph' = vf_crop(f_m_glyph, x, y, w, h)
    /\ UNCHANGED nonfont

FontNext ==
    \E x \in (-1)..FontW, y \in (-1)..FontH, w \in 0..FontW, h \in 0..FontH :
        Crop(x, y, w, h)

SpecFont == FontInit /\ [][FontNext]_vars

\* the command of f_cmd passed the checks of vf_crop
CropAccepted ==
    /\ Len(f_cmd) = 4
    /\ f_cmd[1] >= 0 /\ f_cmd[2] >= 0 /\ f_cmd[3] > 0 /\ f_cmd[4] > 0

\* C10: for every glyph g, offset (x, y) and target size (w, h), the crop
\* yields a w x h glyph whose pixel (i, j) equals g's pixel (x+i, y+j) when
\* that position lies inside g and is unset otherwise; with x = y = 0 and
\* (w, h) = g.size the result has the pixels of g.
C10_CropPixels ==
    CropAccepted =>
        \A k \in DOMAIN f_before :
            /\ f_m_glyph[k].m_size = [w |-> f_cmd[3], h |-> f_cmd[4]]
            /\ \A c \in Cells(f_cmd[3], f_cmd[4]) :
                 PixelSet(f_m_glyph[k], c[1], c[2])
                    <=> testbit_c(f_before[k], f_cmd[1] + c[1], f_cmd[2] + c[2])
            /\ (/\ f_cmd[1] = 0 /\ f_cmd[2] = 0
                /\ f_before[k].m_size = [w |-> f_cmd[3], h |-> f_cmd[4]])
                 => \A c \in Cells(f_cmd[3], f_cmd[4]) :
                      PixelSet(f_m_glyph[k], c[1], c[2])
                         <=> PixelSet(f_before[k], c[1], c[2])


(***************************************************************************)
(* glyph: overstrike and flip                                              *)
(***************************************************************************)
\* the loop of glyph::overstrike from iteration x on:
\* composite = copy_rect_to(vfpos(0, 0) | m_size, composite,
\*                          vfpos(x, 0) | m_size, false)
RECURSIVE OverstrikeFrom(_, _, _, _)
OverstrikeFrom(g, composite, x, px) ==
    IF x > px THEN composite
    ELSE OverstrikeFrom(g,
             copy_rect_to(g, vfrect(0, 0, g.m_size.w, g.m_size.h), composite,
                          vfrect(x, 0, g.m_size.w, g.m_size.h), FALSE),
             x + 1, px)

\* glyph::overstrike
overstrike(g, px) == OverstrikeFrom(g, BlankGlyph(g.m_size), 0, px)

\* opos of glyph::flip, with the column rotated instead of mirrored
FlipPos_rotate(size, x, y, flipx, flipy) ==
    (IF flipy THEN size.h - y - 1 ELSE y) * size.w
        + (IF flipx THEN (x + 1) % size.w ELSE x)

\* opos of glyph::flip
FlipPos(size, x, y, flipx, flipy) ==
    (IF flipy THEN size.h - y - 1 ELSE y) * size.w
        + (IF flipx THEN size.w - x - 1 ELSE x)

\* glyph::flip
flip(g, flipx, flipy) ==
    [m_size |-> g.m_size,
     m_data |-> [i \in 1..bytes_per_glyph(g.m_size) |->
        {bitpos(FlipPos(g.m_size, c[1], c[2], flipx, flipy)).bybit :
           c \in {d \in Cells(g.m_size.w, g.m_size.h) :
                    /\ bitpos(FlipPos(g.m_size, d[1], d[2], flipx, flipy)).byte
                          = i - 1
                    /\ PixelSet(g, d[1], d[2])}}]]

TGlyphs == UNION {AllGlyphs(w, h) : w \in 1..TW, h \in 1..TH}

TInit ==
    /\ t_glyph \in TGlyphs
    /\ t_arg = <<>>
    /\ t_out = <<>>
    /\ t_pc = "glyph"
    /\ TOnly

\* g.overstrike(px)
Overstrike(px) ==
    /\ t_pc = "glyph"
    /\ t_arg' = <<px>>
    /\ t_out' = overstrike(t_glyph, px)
    /\ t_pc' = "struck"
    /\ UNCHANGED t_glyph
    /\ UNCHANGED nont

\* g.flip(flipx, flipy)
Flip(flipx, flipy) ==
    /\ t_pc = "glyph"
    /\ t_arg' = <<flipx, flipy>>
    /\ t_out' = flip(t_glyph, flipx, flipy)
    /\ t_pc' = "flip1"
    /\ UNCHANGED t_glyph
    /\ UNCHANGED nont

\* flip, with the same arguments, of the glyph the first flip returned
FlipAgain ==
    /\ t_pc = "flip1"
    /\ t_out' = flip(t_out, t_arg[1], t_arg[2])
    /\ t_pc' = "flip2"
    /\ UNCHANGED <<t_glyph, t_arg>>
    /\ UNCHANGED nont

TNext ==
    \/ \E px \in 0..MaxPx : Overstrike(px)
    \/ \E flipx \in BOOLEAN, flipy \in BOOLEAN : Flip(flipx, flipy)
    \/ FlipAgain

SpecT == TInit /\ [][TNext]_vars

\* C11: pixel (x, y) of overstrike(g, k) is set exactly when g has a set
\* pixel at (x-d, y) for some 0 <= d <= k with x-d >= 0; so overstrike(g, 0)
\* has the pixels of g, every set pixel of g is set in overstrike(g, k), and
\* no pixel shifted past the right edge appears in another row.
C11_Overstrike ==
    t_pc = "struck" =>
        /\ t_out.m_size = t_glyph.m_size
        /\ \A c \in Cells(t_glyph.m_size.w, t_glyph.m_size.h) :
             /\ PixelSet(t_out, c[1], c[2])
                  <=> \E d \in 0..t_arg[1] :
                        c[1] - d >= 0 /\ PixelSet(t_glyph, c[1] - d, c[2])
             /\ PixelSet(t_glyph, c[1], c[2]) => PixelSet(t_out, c[1], c[2])
             /\ t_arg[1] = 0 =>
                  (PixelSet(t_out, c[1], c[2]) <=> PixelSet(t_glyph, c[1], c[2]))

\* a glyph of two rows was overstruck by two or more pixels: the last pixel
\* of its first row is set and the first of its second row is not, and a
\* pixel of the second row got set by the shift
C11_Witness ==
    /\ t_pc = "struck" /\ t_arg[1] >= 2
    /\ t_glyph.m_size.w = TW /\ t_glyph.m_size.h >= 2
    /\ PixelSet(t_glyph, TW - 1, 0)
    /\ ~PixelSet(t_glyph, 0, 1) /\ ~PixelSet(t_out, 0, 1)
    /\ ~PixelSet(t_glyph, TW - 1, 1) /\ PixelSet(t_out, TW - 1, 1)

\* C12: for every glyph g and booleans (a, b), flip(flip(g, a, b), a, b)
\* has the size of g and the value of g at every pixel.
C12_FlipTwice ==
    t_pc = "flip2" =>
        /\ t_out.m_size = t_glyph.m_size
        /\ \A c \in Cells(t_glyph.m_size.w, t_glyph.m_size.h) :
             PixelSet(t_out, c[1], c[2]) <=> PixelSet(t_glyph, c[1], c[2])

\* a glyph that its flip on both axes changes was flipped twice on both
C12_Witness ==
    /\ t_pc = "flip2" /\ t_arg = <<TRUE, TRUE>>
    /\ t_glyph.m_size.w >= 3 /\ t_glyph.m_size.h >= 2
    /\ flip(t_glyph, TRUE, TRUE) # t_glyph
    /\ flip(t_glyph, TRUE, FALSE) # t_glyph
    /\ flip(t_glyph, FALSE, TRUE) # t_glyph


(***************************************************************************)
(* palcomp: eval_tokenize                                                  *)
(***************************************************************************)
\* A C string is a sequence of one-character strings; NUL is what is read
\* at its end.
NUL == "\\0"
CharAt(s, p) == IF p > Len(s) THEN NUL ELSE s[p]

\* "*/+,-=^"
OpChars == {"*", "/", "+", ",", "-", "=", "^"}
\* EVAL_REGS
EVAL_REGS == {"b", "c", "g", "h", "l", "r", "s", "x", "y", "z"}
Digits == {"0", "1", "2", "3", "4", "5", "6", "7", "8", "9"}
DigitVal(c) ==
    CHOOSE n \in 0..9 : <<"0", "1", "2", "3", "4", "5", "6", "7", "8", "9">>[n + 1] = c

\* HX_isspace
IsSpace(c) == c \in {" ", "\t", "\n"}

\* while (HX_isspace(*ptr)) ++ptr
RECURSIVE SkipSpace(_, _)
SkipSpace(s, p) == IF IsSpace(CharAt(s, p)) THEN SkipSpace(s, p + 1) ELSE p

\* strtod on the texts of the model, which hold no number but runs of
\* decimal digits: the end of the run that starts at p (p if there is none)
RECURSIVE StrtodEnd(_, _)
StrtodEnd(s, p) ==
    IF CharAt(s, p) \in Digits THEN StrtodEnd(s, p + 1) ELSE p

\* the value of the digits s[p..q-1] after the digits that made acc
RECURSIVE StrtodVal(_, _, _, _)
StrtodVal(s, p, q, acc) ==
    IF p >= q THEN acc ELSE StrtodVal(s, p + 1, q, acc * 10 + DigitVal(s[p]))

\* token_entry
Token(type, val) == [type |-> type, val |-> val]

\* eval_help(cmd, ptr, ...): returns 1
EvalHelp(p) == [ret |-> 1, ptr |-> p, tokens |-> <<>>]

\* last_type != token_type::none && last_type != token_type::op
AfterOperand(last_type) == last_type # "none" /\ last_type # "op"

RECURSIVE Section1(_, _, _, _)
RECURSIVE Section1At(_, _, _, _)
RECURSIVE Section1Group(_, _, _, _)
RECURSIVE eval_tokenize(_, _)

\* Section 1 of eval_tokenize, from the top of the loop with ptr = p
Section1(s, p, tokens, last_type) ==
    Section1At(s, SkipSpace(s, p), tokens, last_type)

\* the body of the loop after the white space was skipped
Section1At(s, p, tokens, last_type) ==
    IF CharAt(s, p) = NUL \/ CharAt(s, p) = ")"
    THEN [ret |-> 0, ptr |-> p, tokens |-> tokens]
    ELSE IF CharAt(s, p) \in OpChars
    THEN IF last_type = "none" \/ last_type = "op"
         THEN EvalHelp(p)
         ELSE Section1(s, p + 1, Append(tokens, Token("op", s[p])), "op")
    ELSE IF CharAt(s, p) \in EVAL_REGS
    THEN IF AfterOperand(last_type)
         THEN EvalHelp(p)
         ELSE Section1(s, p + 1,
                  Append(tokens, Token("reg", IF s[p] = "s" THEN "c" ELSE s[p])),
                  "reg")
    ELSE IF CharAt(s, p) = "("
    THEN IF AfterOperand(last_type)
         THEN EvalHelp(p)
         ELSE Section1Group(s, p, tokens, eval_tokenize(s, p + 1))
    ELSE IF StrtodEnd(s, p) # p
    THEN IF AfterOperand(last_type)
         THEN EvalHelp(p)
         ELSE Section1(s, StrtodEnd(s, p),
                  Append(tokens,
                      Token("imm", StrtodVal(s, p, StrtodEnd(s, p), 0))),
                  "imm")
    ELSE EvalHelp(p)

\* after the recursive call for an opening parenthesis returned sub
Section1Group(s, p, tokens, sub) ==
    IF sub.ret # 0 THEN sub
    ELSE IF CharAt(s, sub.ptr) # ")" THEN EvalHelp(sub.ptr)
    ELSE Section1(s, sub.ptr + 1, Append(tokens, Token("grp", sub.tokens)),
                  "grp")


\* std::reverse
Reverse(seq) == [i \in 1..Len(seq) |-> seq[Len(seq) + 1 - i]]

\* the precedence groups in another order: sums before products
op_prec_sumfirst == <<{"^"}, {"+", "-"}, {"*", "/"}, {"="}, {","}>>

\* op_prec, and whether a group of it is right-associative
\* (bool right_assoc = *op_group == '=')
op_prec == <<{"^"}, {"*", "/"}, {"+", "-"}, {"="}, {","}>>
RightAssoc(op_group) == "=" \in op_group

\* the tokens after tokens[i-1], tokens[i], tokens[i+1] (i counted from 1
\* here) were moved into a new group that took the place of tokens[i-1]
Regroup(tokens, i, right_assoc) ==
    SubSeq(tokens, 1, i - 2)
      \o << Token("grp",
                IF right_assoc
                THEN <<tokens[i + 1], tokens[i], tokens[i - 1]>>
                ELSE <<tokens[i - 1], tokens[i], tokens[i + 1]>>) >>
      \o SubSeq(tokens, i + 2, Len(tokens))

\* the inner loop of Section 3 from position i on
RECURSIVE PrecLoop(_, _, _, _)
PrecLoop(tokens, i, op_group, right_assoc) ==
    IF i > Len(tokens) THEN tokens
    ELSE IF tokens[i].type # "op" THEN
        PrecLoop(tokens, i + 1, op_group, right_assoc)
    ELSE IF tokens[i].val \notin op_group THEN
        PrecLoop(tokens, i + 1, op_group, right_assoc)
    ELSE PrecLoop(Regroup(tokens, i, right_assoc), i, op_group, right_assoc)

\* one round of the outer loop of Section 3
PrecGroup(tokens, op_group) ==
    IF RightAssoc(op_group)
    THEN Reverse(PrecLoop(Reverse(tokens), 2, op_group, TRUE))
    ELSE PrecLoop(tokens, 2, op_group, FALSE)

\* Section 3: the rounds for the groups k.. of the precedence table
RECURSIVE Section3(_, _, _)
Section3(tokens, prec, k) ==
    IF k > Len(prec) THEN tokens
    ELSE Section3(PrecGroup(tokens, prec[k]), prec, k + 1)

\* Section 2 without the precedence maker after it
Section2_flat(s1) ==
    IF s1.ret # 0 THEN s1
    ELSE IF s1.tokens = <<>> THEN EvalHelp(s1.ptr)
    ELSE IF s1.tokens[Len(s1.tokens)].type = "op" THEN EvalHelp(s1.ptr)
    ELSE [ret |-> 0, ptr |-> s1.ptr, tokens |-> s1.tokens]

\* Sections 2 and 3, on what Section 1 returned
Section2(s1) ==
    IF s1.ret # 0 THEN s1
    ELSE IF s1.tokens = <<>> THEN EvalHelp(s1.ptr)
    ELSE IF s1.tokens[Len(s1.tokens)].type = "op" THEN EvalHelp(s1.ptr)
    ELSE [ret |-> 0, ptr |-> s1.ptr,
          tokens |-> Section3(s1.tokens, op_prec, 1)]

\* eval_tokenize(ptr, &end, tokens) on the text s from position p: the
\* return value, *super_end and the tokens
eval_tokenize(s, p) == Section2(Section1(s, p, <<>>, "none"))

\* the characters the expressions of the model are made of ("$" stands for
\* any character that is no part of an expression)
Alphabet == {"l", "1", "^", "*", "/", "+", "-", "=", ",", "(", ")", "$"}

\* the texts of n characters
ExprsOfLen(n) == [1..n -> Alphabet]

\* l=l+1*2 and x=y=3
ExprSum == <<"l", "=", "l", "+", "1", "*", "2">>
ExprChain == <<"x", "=", "y", "=", "3">>

EInit ==
    /\ \/ \E n \in 0..MaxExpr : e_expr \in ExprsOfLen(n)
       \/ e_expr \in {ExprSum, ExprChain}
    /\ e_res = <<>>
    /\ e_pc = "expr"
    /\ EOnly

\* do_eval: eval_tokenize(cmd, nullptr, tokens)
Tokenize ==
    /\ e_pc = "expr"
    /\ e_res' = eval_tokenize(e_expr, 1)
    /\ e_pc' = "parsed"
    /\ UNCHANGED e_expr
    /\ UNCHANGED none_

ENext == Tokenize

SpecE == EInit /\ [][ENext]_vars


\* ---- the parse of an expression under a precedence table ----
\* the number of "(" less the number of ")" in s[a..p-1]
RECURSIVE Depth(_, _, _)
Depth(s, a, p) ==
    IF p <= a THEN 0
    ELSE Depth(s, a, p - 1)
           + (IF s[p - 1] = "(" THEN 1 ELSE IF s[p - 1] = ")" THEN -1 ELSE 0)

\* the positions in a..b of the operators that are inside no parenthesis
TopOps(s, a, b) == {p \in a..b : s[p] \in OpChars /\ Depth(s, a, p) = 0}

\* how tightly an operator binds: "," least, "^" most
Binding(c) ==
    IF c = "," THEN 1 ELSE IF c = "=" THEN 2
    ELSE IF c \in {"+", "-"} THEN 3 ELSE IF c \in {"*", "/"} THEN 4 ELSE 5

\* the operators of ops that bind least
Loosest(s, ops) == {p \in ops : \A q \in ops : Binding(s[p]) <= Binding(s[q])}

\* the operator at which s[a..b] splits: of those that bind least the first
\* one if they group to the right ("="), else the last one
SplitAt(s, loosest) ==
    IF \E p \in loosest : s[p] = "="
    THEN CHOOSE p \in loosest : \A q \in loosest : p <= q
    ELSE CHOOSE p \in loosest : \A q \in loosest : p >= q

\* the tree of the well-formed expression s[a..b], as a token
RECURSIVE ParseTree(_, _, _)
RECURSIVE ParseSplit(_, _, _, _)
ParseTree(s, a, b) ==
    IF TopOps(s, a, b) # {}
    THEN ParseSplit(s, a, b, SplitAt(s, Loosest(s, TopOps(s, a, b))))
    ELSE IF s[a] = "(" THEN Token("grp", <<ParseTree(s, a + 1, b - 1)>>)
    ELSE IF s[a] \in EVAL_REGS
    THEN Token("reg", IF s[a] = "s" THEN "c" ELSE s[a])
    ELSE Token("imm", StrtodVal(s, a, b + 1, 0))

ParseSplit(s, a, b, p) ==
    Token("grp", <<ParseTree(s, a, p - 1), Token("op", s[p]),
                   ParseTree(s, p + 1, b)>>)

Reg(c) == Token("reg", c)
Imm(n) == Token("imm", n)
Op(c) == Token("op", c)
Grp3(l, c, r) == Token("grp", <<l, Op(c), r>>)

\* C14: for every expression eval_tokenize accepts, the tree it builds is
\* the parse under the precedence ^, then * /, then + -, then =, then ","
\* with = grouping to the right and all others to the left; l=l+1*2 groups
\* as l=(l+(1*2)) and x=y=3 as x=(y=3).
C14_Precedence ==
    (e_pc = "parsed" /\ e_res.ret = 0) =>
        /\ e_res.tokens = <<ParseTree(e_expr, 1, e_res.ptr - 1)>>
        /\ e_expr = ExprSum =>
             e_res.tokens =
                 <<Grp3(Reg("l"), "=", Grp3(Reg("l"), "+", Grp3(Imm(1), "*", Imm(2))))>>
        /\ e_expr = ExprChain =>
             e_res.tokens = <<Grp3(Reg("x"), "=", Grp3(Reg("y"), "=", Imm(3)))>>

\* l=l+1*2 was accepted
C14_Witness ==
    /\ e_pc = "parsed" /\ e_res.ret = 0
    /\ e_expr = ExprSum /\ e_res.ptr = 8


(***************************************************************************)
(* palcomp: colours.  A double is modelled by an integer; where the        *)
(* program works with fractions the unit is named.                         *)
(***************************************************************************)
\* struct srgb888, struct lch
Srgb888(r, g, b) == [r |-> r, g |-> g, b |-> b]
Lch(l, c, h) == [l |-> l, c |-> c, h |-> h]

Max2(a, b) == IF a >= b THEN a ELSE b
Min2(a, b) == IF a <= b THEN a ELSE b
Abs(a) == IF a < 0 THEN -a ELSE a
\* HX_flpr: the floored remainder
Flpr(a, n) == a % n

\* the value a channel gets from a number that is in the range of the
\* channel (std::max(std::min(v, 255.0), 0.0) in to_srgb888(const srgb &),
\* the clamping of babl for "R'G'B' u8")
ClampChan(v) == Max2(Min2(v, ChanMax), 0)

\* vga_palette and win_palette.  The palettes of the program use the
\* channel values 00, 55/80, aa/c0 and ff, which are the values 0..3 here.
vga_palette ==
    << Srgb888(0,0,0), Srgb888(2,0,0), Srgb888(0,2,0), Srgb888(2,1,0),
       Srgb888(0,0,2), Srgb888(2,0,2), Srgb888(0,2,2), Srgb888(2,2,2),
       Srgb888(1,1,1), Srgb888(3,1,1), Srgb888(1,3,1), Srgb888(3,3,1),
       Srgb888(1,1,3), Srgb888(3,1,3), Srgb888(1,3,3), Srgb888(3,3,3) >>
win_palette ==
    << Srgb888(0,0,0), Srgb888(1,0,0), Srgb888(0,1,0), Srgb888(1,1,0),
       Srgb888(0,0,1), Srgb888(1,0,1), Srgb888(0,1,1), Srgb888(2,2,2),
       Srgb888(1,1,1), Srgb888(3,0,0), Srgb888(0,3,0), Srgb888(3,3,0),
       Srgb888(0,0,3), Srgb888(3,0,3), Srgb888(0,3,3), Srgb888(3,3,3) >>

\* babl's conversion from "R'G'B' u8" to "CIE LCH(ab) double" is a fixed
\* function that is no part of the program.  It is represented by a
\* cylindrical colour model on the small channel range: lightness 0..100,
\* chroma 0..100, hue in degrees.
HueOf(e, d) ==
    IF d = 0 THEN 0
    ELSE IF Max2(e.r, Max2(e.g, e.b)) = e.b THEN (60 * (e.r - e.g)) \div d + 240
    ELSE IF Max2(e.r, Max2(e.g, e.b)) = e.g THEN (60 * (e.b - e.r)) \div d + 120
    ELSE Flpr((60 * (e.g - e.b)) \div d, 360)

\* to_lch(const srgb888 &)
to_lch1(e) ==
    Lch(((Max2(e.r, Max2(e.g, e.b)) + Min2(e.r, Min2(e.g, e.b))) * 100)
            \div (2 * ChanMax),
        ((Max2(e.r, Max2(e.g, e.b)) - Min2(e.r, Min2(e.g, e.b))) * 100)
            \div ChanMax,
        HueOf(e, Max2(e.r, Max2(e.g, e.b)) - Min2(e.r, Min2(e.g, e.b))))

\* the channels of the colour with the largest channel hi, the smallest lo
\* and the hue h
FromHue(hi, lo, mid, sector) ==
    IF sector = 0 THEN Srgb888(hi, mid, lo)
    ELSE IF sector = 1 THEN Srgb888(mid, hi, lo)
    ELSE IF sector = 2 THEN Srgb888(lo, hi, mid)
    ELSE IF sector = 3 THEN Srgb888(lo, mid, hi)
    ELSE IF sector = 4 THEN Srgb888(mid, lo, hi)
    ELSE Srgb888(hi, lo, mid)

ClampRgb(e) == Srgb888(ClampChan(e.r), ClampChan(e.g), ClampChan(e.b))

\* the largest channel and the span of the channels for lightness l and
\* chroma c, rounded to the nearest channel value
HiOf(l, c) == (l * 2 * ChanMax + c * ChanMax + 100) \div 200
SpanOf(c) == (c * ChanMax + 50) \div 100

\* to_srgb888(const lch &): babl's conversion back, which clamps
to_srgb8881(i) ==
    ClampRgb(FromHue(HiOf(i.l, i.c), HiOf(i.l, i.c) - SpanOf(i.c),
                     HiOf(i.l, i.c) - SpanOf(i.c)
                        + (SpanOf(i.c) * (60 - Abs(Flpr(i.h, 120) - 60))) \div 60,
                     Flpr(i.h, 360) \div 60))

\* to_lch(const std::vector<srgb888> &), to_srgb888(const std::vector<lch> &)
to_lch(in) == [i \in 1..Len(in) |-> to_lch1(in[i])]
to_srgb888(in) == [i \in 1..Len(in) |-> to_srgb8881(in[i])]

\* struct mpalette
Mpalette(ra, la, x, y, z) == [ra |-> ra, la |-> la, x |-> x, y |-> y, z |-> z]
EmptyPalette == Mpalette(<<>>, <<>>, 0, 0, 0)

\* mpalette::mod_la and mpalette::mod_ra
mod_la(mpal) == [mpal EXCEPT !.ra = to_srgb888(mpal.la)]
mod_ra(mpal) == [mpal EXCEPT !.la = to_lch(mpal.ra)]


(***************************************************************************)
(* palcomp: the white point and the contrast analyses                      *)
(***************************************************************************)
\* illuminant_d(t): the chromaticity {x, y} in millionths
IlluminantX(t) ==
    IF t <= 7000
    THEN 244063 + 99110000 \div t + ((296780000 \div t) * 10000) \div t
           - ((((460700000 \div t) * 10000) \div t) * 1000) \div t
    ELSE 237040 + 247480000 \div t + ((190180000 \div t) * 10000) \div t
           - ((((200640000 \div t) * 10000) \div t) * 1000) \div t

IlluminantY(x) ==
    (287 * x) \div 100 - 3 * (((x \div 100) * (x \div 100)) \div 100) - 275000

illuminant_d(t) == [x |-> IlluminantX(t), y |-> IlluminantY(IlluminantX(t))]

\* to_xyz(const xy0 &): {e.x / e.y, 1, (1 - e.x - e.y) / e.y}, in hundredths
to_xyz(e) ==
    << (e.x * 100) \div e.y, 100, ((1000000 - e.x - e.y) * 100) \div e.y >>

\* M_prime of make_lrgb_matrix, in hundredths, from the chromaticities of
\* red {0.64, 0.33}, green {0.30, 0.60} and blue {0.15, 0.06}
M_prime ==
    << << (64 * 100) \div 33, (30 * 100) \div 60, (15 * 100) \div 6 >>,
       << 100, 100, 100 >>,
       << ((100 - 64 - 33) * 100) \div 33, ((100 - 30 - 60) * 100) \div 60,
          ((100 - 15 - 6) * 100) \div 6 >> >>

Det3(m) ==
    m[1][1] * (m[2][2] * m[3][3] - m[2][3] * m[3][2])
      - m[1][2] * (m[2][1] * m[3][3] - m[2][3] * m[3][1])
      + m[1][3] * (m[2][1] * m[3][2] - m[2][2] * m[3][1])

\* the matrix m with column j replaced by the vector w
WithColumn(m, j, w) ==
    [i \in 1..3 |-> [k \in 1..3 |-> IF k = j THEN w[i] ELSE m[i][k]]]

\* M_prime.inverse() * W by Cramer's rule, in thousandths
InverseTimes(m, w) ==
    [j \in 1..3 |-> Det3(WithColumn(m, j, w)) \div (Det3(m) \div 1000)]

\* M_prime * (M_prime.inverse() * W).asDiagonal(), in thousandths
TimesDiagonal(m, s) ==
    [i \in 1..3 |-> [j \in 1..3 |-> (m[i][j] * s[j]) \div 100]]

make_lrgb_matrix(white_raw) ==
    TimesDiagonal(M_prime, InverseTimes(M_prime, white_raw))

\* the matrix main starts with:
\* make_lrgb_matrix(to_xyz(illuminant_d(6500)))
DefaultMatrix == make_lrgb_matrix(to_xyz(illuminant_d(6500)))

\* to_srgb(const srgb888 &): a channel as a fraction of its largest value,
\* in thousandths
to_srgb(e) == [r |-> (e.r * 1000) \div ChanMax, g |-> (e.g * 1000) \div ChanMax,
               b |-> (e.b * 1000) \div ChanMax]

Square1000(c) == (c * c) \div 1000

\* gamma_expand, in thousandths, with g_continuous_gamma = 0: the power 2.4
\* is represented by the square
gamma_expand(c) ==
    IF c <= 40 THEN (c * 100) \div 1292
    ELSE Min2(1000, Square1000(((c + 55) * 1000) \div 1055))

\* to_lrgb(const srgb &)
to_lrgb(e) == [r |-> gamma_expand(e.r), g |-> gamma_expand(e.g),
               b |-> gamma_expand(e.b)]

\* trivial_lightness with the matrix dm, in thousandths
trivial_lightness(k, dm) ==
    (dm[2][1] * k.r + dm[2][2] * k.g + dm[2][3] * k.b) \div 1000

\* the integer square root, by Newton's iteration from above
RECURSIVE NewtonSqrt(_, _)
NewtonSqrt(v, x) ==
    IF (x + v \div x) \div 2 >= x THEN x ELSE NewtonSqrt(v, (x + v \div x) \div 2)
ISqrt(v) == IF v <= 0 THEN 0 ELSE NewtonSqrt(v, v)

\* pow(y, e) for 0 <= y <= 1 and the exponents of sa_param, y and e in
\* thousandths: interpolated in e between the square root and y for
\* e <= 1, between y and the square of y above
PowFrac(y, e) ==
    IF e <= 1000
    THEN ((2000 - 2 * e) * ISqrt(1000 * y) + (2 * e - 1000) * y) \div 1000
    ELSE ((2000 - e) * y + (e - 1000) * ((y * y) \div 1000)) \div 1000

\* sa_param, in thousandths (delta_y_min is below one thousandth)
sa_param ==
    [normbg |-> 560, normtxt |-> 570, revtxt |-> 620, revbg |-> 650,
     black_thresh |-> 22, black_clamp |-> 1414, scale_bow |-> 1140,
     scale_wob |-> 1140, lo_offset |-> 27]

\* y += pow(black_thresh - y, black_clamp) for y <= black_thresh
BlackClamp(y) ==
    IF y <= sa_param.black_thresh
    THEN y + PowFrac(sa_param.black_thresh - y, sa_param.black_clamp)
    ELSE y

\* apca_contrast after the clamping of both arguments; the value is
\* 100 * fabs(oc), in tenths
ApcaClamped(ytx, ybg) ==
    IF ybg = ytx THEN 0
    ELSE IF ybg > ytx
    THEN Max2(((PowFrac(ybg, sa_param.normbg) - PowFrac(ytx, sa_param.normtxt))
                  * sa_param.scale_bow) \div 1000 - sa_param.lo_offset, 0)
    ELSE Abs(Min2(((PowFrac(ybg, sa_param.revbg) - PowFrac(ytx, sa_param.revtxt))
                      * sa_param.scale_wob) \div 1000 + sa_param.lo_offset, 0))

apca_contrast(ytx, ybg) == ApcaClamped(BlackClamp(ytx), BlackClamp(ybg))

\* cxl_compute: o.delta[bg][fg] = fabs(pal[fg].l - pal[bg].l)
cxl_compute(pal) ==
    [bg \in 0..15 |-> [fg \in 0..15 |-> Abs(pal[fg + 1].l - pal[bg + 1].l)]]

\* cxa_compute, which reads the global matrix dm
CxaDelta(ell) ==
    [bg \in 0..15 |-> [fg \in 0..15 |-> apca_contrast(ell[fg + 1], ell[bg + 1])]]
cxa_compute(pal, dm) ==
    CxaDelta([i \in 1..Len(pal) |-> trivial_lightness(to_lrgb(to_srgb(pal[i])), dm)])

\* palstat::compute_sums(xlim, ylim, gs): sum, penalized and adj_sum, where
\* penalize(d) is d < limit
SumCells(xlim, ylim) ==
    {c \in (0..(ylim - 1)) \X (0..(xlim - 1)) : c[1] # c[2]}
\* the part of delta[y][x] in the sum of the values that are at least least
SumTerm(delta, y, x, least) ==
    IF x # y /\ delta[y][x] >= least THEN delta[y][x] ELSE 0
RECURSIVE SumRow(_, _, _, _)
SumRow(delta, y, xlim, least) ==
    IF xlim = 0 THEN 0
    ELSE SumTerm(delta, y, xlim - 1, least) + SumRow(delta, y, xlim - 1, least)
RECURSIVE SumRows(_, _, _, _)
SumRows(delta, xlim, ylim, least) ==
    IF ylim = 0 THEN 0
    ELSE SumRow(delta, ylim - 1, xlim, least) + SumRows(delta, xlim, ylim - 1, least)
compute_sums(delta, xlim, ylim, limit) ==
    [sum |-> SumRows(delta, xlim, ylim, 0),
     penalized |-> Cardinality({c \in SumCells(xlim, ylim) : delta[c[1]][c[2]] < limit}),
     adj_sum |-> SumRows(delta, xlim, ylim, limit)]

\* cx_report(const palstat &): the three blocks
cx_report(delta, limit) ==
    << compute_sums(delta, 16, 16, limit), compute_sums(delta, 8, 16, limit),
       compute_sums(delta, 8, 8, limit) >>

\* what cxl_command prints for a palette of at least 16 entries: the
\* table of %3.0f values and the report (penalize is x < 7.0)
cxl_command(la) ==
    [kind |-> "cxl", delta |-> cxl_compute(la), report |-> cx_report(cxl_compute(la), 7)]

\* what cxa_command prints: the values are in tenths, %3.0f rounds them
\* (penalize is d < 7.3)
RoundTenths(delta) ==
    [bg \in 0..15 |-> [fg \in 0..15 |-> (delta[bg][fg] + 5) \div 10]]
cxa_command(ra, dm) ==
    [kind |-> "cxa", delta |-> RoundTenths(cxa_compute(ra, dm)),
     report |-> cx_report(cxa_compute(ra, dm), 73)]


(***************************************************************************)
(* palcomp: tints, blend, equalize                                         *)
(***************************************************************************)
\* huetorgb, with p and q in thousandths and t in degrees
HueFold(t) == IF t < 0 THEN t + 360 ELSE IF t > 360 THEN t - 360 ELSE t
HueRamp(p, q, t) ==
    IF t < 60 THEN p + ((q - p) * t) \div 60
    ELSE IF t < 180 THEN q
    ELSE IF t < 240 THEN p + ((q - p) * (240 - t)) \div 60
    ELSE p
huetorgb(p, q, t) == HueRamp(p, q, HueFold(t))

\* q of to_srgb(const hsl &)
HslQ(in) ==
    IF in.l < 500 THEN (in.l * (1000 + in.s)) \div 1000
    ELSE in.l + in.s - (in.l * in.s) \div 1000

\* to_srgb(const hsl &): s and l in thousandths, h in degrees
hsl_to_srgb(in) ==
    IF in.s <= 0 THEN [r |-> in.l, g |-> in.l, b |-> in.l]
    ELSE [r |-> huetorgb(2 * in.l - HslQ(in), HslQ(in), in.h + 120),
          g |-> huetorgb(2 * in.l - HslQ(in), HslQ(in), in.h),
          b |-> huetorgb(2 * in.l - HslQ(in), HslQ(in), in.h - 120)]

\* to_srgb888(const srgb &): round(e.r * 255.0), clamped
srgb_to_srgb888(e) ==
    Srgb888(ClampChan((e.r * ChanMax + 500) \div 1000),
            ClampChan((e.g * ChanMax + 500) \div 1000),
            ClampChan((e.b * ChanMax + 500) \div 1000))

\* hsltint: color.l *= e.l / 100.0 for every entry of light
hsltint(base, light) ==
    [i \in 1..Len(light) |->
        srgb_to_srgb888(hsl_to_srgb([base EXCEPT !.l = (@ * light[i].l) \div 100]))]

\* lchtint
lchtint(base, light) ==
    [i \in 1..Len(light) |-> Lch(light[i].l, base.c, base.h)]

\* what parse_hsl returns for the arguments of the model: {0, 0, 0} for an
\* illegal text, a saturated blue
HslBases == { [h |-> 0, s |-> 0, l |-> 0], [h |-> 240, s |-> 1000, l |-> 500] }

\* element x (counted from 0) of a vector, or junk where x is out of range
ElemOr(vec, x, junk) == IF x < Len(vec) THEN vec[x + 1] ELSE junk

\* do_blend for a percentage pct: amult = 1 - pct/100, bmult = pct/100; the
\* channels are cut to integers on assignment
BlendChan(a, b, pct) == (a * (100 - pct) + b * pct) \div 100
do_blend(a, b, pct, junk) ==
    [i \in 1..Max2(Len(a), Len(b)) |->
        Srgb888(BlendChan(ElemOr(a, i - 1, junk).r, ElemOr(b, i - 1, junk).r, pct),
                BlendChan(ElemOr(a, i - 1, junk).g, ElemOr(b, i - 1, junk).g, pct),
                BlendChan(ElemOr(a, i - 1, junk).b, ElemOr(b, i - 1, junk).b, pct))]

\* do_blend indexes both vectors up to the larger size
BlendOutOfRange(a, b) == Len(a) # Len(b)

\* the comparison of std::sort in equalize; entries of equal L come out in
\* one of the two orders of their indices
EqLess(la, x, y, tie) ==
    \/ la[x + 1].l < la[y + 1].l
    \/ la[x + 1].l = la[y + 1].l /\ (IF tie = "up" THEN x < y ELSE y < x)

\* the position of index z in sbl after the sort
EqRank(la, n, z, tie) == Cardinality({x \in 0..(n - 1) : EqLess(la, x, z, tie)})

\* sbl[0]
EqDarkest(la, n, tie) == CHOOSE z \in 0..(n - 1) : EqRank(la, n, z, tie) = 0

\* equalize spreading the entries over sbl.size() - 1 steps
equalize_steps(la, sbl_size, blue, gray, tie) ==
    [i \in 1..Len(la) |->
        IF i - 1 < sbl_size /\ EqRank(la, sbl_size, i - 1, tie) >= 1
        THEN [la[i] EXCEPT !.l =
                 (((gray - blue) * (EqRank(la, sbl_size, i - 1, tie) - 1))
                      \div (sbl_size - 1) + blue) \div 100
                   + la[EqDarkest(la, sbl_size, tie) + 1].l]
        ELSE la[i]]

\* equalize for a vector of at least sbl_size entries; blue and gray in
\* hundredths
equalize(la, sbl_size, blue, gray, tie) ==
    [i \in 1..Len(la) |->
        IF i - 1 < sbl_size /\ EqRank(la, sbl_size, i - 1, tie) >= 1
        THEN [la[i] EXCEPT !.l =
                 (((gray - blue) * (EqRank(la, sbl_size, i - 1, tie) - 1))
                      \div (sbl_size - 2) + blue) \div 100
                   + la[EqDarkest(la, sbl_size, tie) + 1].l]
        ELSE la[i]]

\* inv16: new_ra[i] = ra[~i % ra.size()]; the size is a power of two
\* whenever the loop runs, so that ~i % size = size - 1 - (i % size)
inv16(ra) == [i \in 1..Len(ra) |-> ra[Len(ra) - (i - 1)]]


(***************************************************************************)
(* palcomp: evaluation of a tokenised expression                           *)
(***************************************************************************)
\* the doubles of the evaluation are integers here; HUGE_VAL stands for
\* every magnitude beyond the ones the expressions of the model produce
HUGE_VAL == 1000000
Sat(v) == Max2(Min2(v, HUGE_VAL), -HUGE_VAL)

RECURSIVE PowNat(_, _)
PowNat(a, b) == IF b = 0 THEN 1 ELSE Sat(a * PowNat(a, b - 1))

\* pow(std::max(0.0, lhv), rhv)
EvalPow(lhv, rhv) ==
    IF rhv >= 0 THEN PowNat(Max2(0, lhv), Min2(rhv, 20))
    ELSE IF Max2(0, lhv) = 0 THEN HUGE_VAL
    ELSE 1 \div PowNat(Max2(0, lhv), Min2(-rhv, 20))

\* lhv / rhv
EvalDiv(lhv, rhv) == IF rhv = 0 THEN Sign(lhv) * HUGE_VAL ELSE lhv \div rhv

\* what eval_arg and eval_grp hand back: the token, its value, the palette
\* after the side effects, and whether a const char * was thrown
EvalRes(tok, val, mpal, thrown) ==
    [tok |-> tok, val |-> val, mpal |-> mpal, thrown |-> thrown]
NoToken == Token("none", 0)

\* the registers eval_rd knows
ReadRegs == {"r", "g", "b", "l", "c", "h", "x", "y", "z"}

\* eval_rd for a register of ReadRegs; idx counts from 0
eval_rd(mpal, idx, reg) ==
    CASE reg = "r" -> mpal.ra[idx + 1].r
      [] reg = "g" -> mpal.ra[idx + 1].g
      [] reg = "b" -> mpal.ra[idx + 1].b
      [] reg = "l" -> mpal.la[idx + 1].l
      [] reg = "c" -> mpal.la[idx + 1].c
      [] reg = "h" -> mpal.la[idx + 1].h
      [] reg = "x" -> mpal.x
      [] reg = "y" -> mpal.y
      [] OTHER -> mpal.z

\* eval_arg for a token that is a register, or a group that came out as one
EvalReg(tok, mpal, idx) ==
    IF tok.val \in ReadRegs
    THEN EvalRes(tok, eval_rd(mpal, idx, tok.val), mpal, FALSE)
    ELSE EvalRes(NoToken, 0, mpal, TRUE)

\* the conversion of a double to uint8_t: defined for the values of the
\* channel range, any channel value (junk) otherwise
ToChan(rhv, junk) == IF rhv >= 0 /\ rhv <= ChanMax THEN rhv ELSE junk

\* the assignment alone, without the conversion of the other array
EvalAssign_nomod(mpal, idx, reg, rhv, junk) ==
    CASE reg = "r" -> [mpal EXCEPT !.ra[idx + 1].r = ToChan(rhv, junk)]
      [] reg = "g" -> [mpal EXCEPT !.ra[idx + 1].g = ToChan(rhv, junk)]
      [] reg = "b" -> [mpal EXCEPT !.ra[idx + 1].b = ToChan(rhv, junk)]
      [] reg = "l" -> [mpal EXCEPT !.la[idx + 1].l = rhv]
      [] reg = "c" -> [mpal EXCEPT !.la[idx + 1].c = rhv]
      [] reg = "h" -> [mpal EXCEPT !.la[idx + 1].h = Flpr(rhv, 360)]
      [] reg = "x" -> [mpal EXCEPT !.x = rhv]
      [] reg = "y" -> [mpal EXCEPT !.y = rhv]
      [] OTHER -> [mpal EXCEPT !.z = rhv]

\* the assignment of eval_grp to a register of ReadRegs, with the mod_la or
\* mod_ra that follows it
EvalAssign(mpal, idx, reg, rhv, junk) ==
    CASE reg = "r" -> mod_ra([mpal EXCEPT !.ra[idx + 1].r = ToChan(rhv, junk)])
      [] reg = "g" -> mod_ra([mpal EXCEPT !.ra[idx + 1].g = ToChan(rhv, junk)])
      [] reg = "b" -> mod_ra([mpal EXCEPT !.ra[idx + 1].b = ToChan(rhv, junk)])
      [] reg = "l" -> mod_la([mpal EXCEPT !.la[idx + 1].l = rhv])
      [] reg = "c" -> mod_la([mpal EXCEPT !.la[idx + 1].c = rhv])
      [] reg = "h" -> mod_la([mpal EXCEPT !.la[idx + 1].h = Flpr(rhv, 360)])
      [] reg = "x" -> [mpal EXCEPT !.x = rhv]
      [] reg = "y" -> [mpal EXCEPT !.y = rhv]
      [] OTHER -> [mpal EXCEPT !.z = rhv]

\* the switch over op of eval_grp and what follows it, given the results
\* of the two eval_arg calls
EvalOp(op, idx, junk, l, r) ==
    IF r.thrown THEN r
    ELSE CASE op = "+" -> EvalRes(Token("imm", Sat(l.val + r.val)), 0, r.mpal, FALSE)
           [] op = "-" -> EvalRes(Token("imm", Sat(l.val - r.val)), 0, r.mpal, FALSE)
           [] op = "*" -> EvalRes(Token("imm", Sat(l.val * r.val)), 0, r.mpal, FALSE)
           [] op = "/" -> EvalRes(Token("imm", EvalDiv(l.val, r.val)), 0, r.mpal, FALSE)
           [] op = "^" -> EvalRes(Token("imm", EvalPow(l.val, r.val)), 0, r.mpal, FALSE)
           [] op = "," -> EvalRes(r.tok, 0, r.mpal, FALSE)
           [] op = "=" ->
                IF l.tok.type # "reg" \/ l.tok.val \notin ReadRegs
                THEN EvalRes(NoToken, 0, r.mpal, FALSE)
                ELSE EvalRes(l.tok, 0,
                             EvalAssign(r.mpal, idx, l.tok.val, r.val, junk), FALSE)
           [] OTHER -> EvalRes(NoToken, 0, r.mpal, FALSE)

RECURSIVE eval_grp(_, _, _, _)
RECURSIVE eval_arg(_, _, _, _)

\* eval_arg, the categ part
EvalCateg(categ, idx) ==
    IF categ.thrown THEN categ
    ELSE IF categ.tok.type = "imm"
    THEN EvalRes(categ.tok, categ.tok.val, categ.mpal, FALSE)
    ELSE IF categ.tok.type = "reg" THEN EvalReg(categ.tok, categ.mpal, idx)
    ELSE EvalRes(NoToken, 0, categ.mpal, TRUE)

eval_arg(token, mpal, idx, junk) ==
    IF token.type = "imm" THEN EvalRes(token, token.val, mpal, FALSE)
    ELSE IF token.type = "reg" THEN EvalReg(token, mpal, idx)
    ELSE IF token.type = "grp"
    THEN EvalCateg(eval_grp(token.val, mpal, idx, junk), idx)
    ELSE EvalRes(NoToken, 0, mpal, TRUE)

\* eval_grp after the first eval_arg
EvalRhs(tokens, idx, junk, l) ==
    IF l.thrown THEN l
    ELSE EvalOp(tokens[2].val, idx, junk, l, eval_arg(tokens[3], l.mpal, idx, junk))

eval_grp(tokens, mpal, idx, junk) ==
    IF Len(tokens) = 1
    THEN IF tokens[1].type # "grp" THEN EvalRes(tokens[1], 0, mpal, FALSE)
         ELSE eval_grp(tokens[1].val, mpal, idx, junk)
    ELSE IF Len(tokens) # 3 THEN EvalRes(NoToken, 0, mpal, FALSE)
    ELSE IF tokens[2].type # "op" THEN EvalRes(NoToken, 0, mpal, FALSE)
    ELSE EvalRhs(tokens, idx, junk, eval_arg(tokens[1], mpal, idx, junk))

\* what do_eval hands back: its return value and the palette
DoEvalRes(ret, mpal) == [ret |-> ret, mpal |-> mpal]

RECURSIVE EvalLoop(_, _, _, _)
\* one round of a loop of do_eval
EvalRound(tokens, is, junk, d) ==
    IF d.thrown \/ d.tok.type = "none" THEN DoEvalRes(-1, d.mpal)
    ELSE EvalLoop(tokens, d.mpal, Tail(is), junk)

\* the loops of do_eval over the indices is (counted from 0)
EvalLoop(tokens, mpal, is, junk) ==
    IF is = <<>> THEN DoEvalRes(0, mpal)
    ELSE IF Head(is) >= Len(mpal.la) THEN EvalLoop(tokens, mpal, Tail(is), junk)
    ELSE EvalRound(tokens, is, junk, eval_grp(tokens, mpal, Head(is), junk))

\* do_eval after eval_tokenize
DoEvalParsed(t, mpal, indices, junk) ==
    IF t.ret # 0 THEN DoEvalRes(t.ret, mpal)
    ELSE IF Len(mpal.la) # Len(mpal.ra) THEN DoEvalRes(-1, mpal)
    ELSE IF indices = <<>>
    THEN EvalLoop(t.tokens, mpal, [i \in 1..Len(mpal.la) |-> i - 1], junk)
    ELSE EvalLoop(t.tokens, mpal, indices, junk)

do_eval(cmd, mpal, indices, junk) ==
    DoEvalParsed(eval_tokenize(cmd, 1), mpal, indices, junk)


(***************************************************************************)
(* palcomp: the command loop of main                                       *)
(***************************************************************************)
\* a command word of argv: its name and up to two arguments
Cmd(op, a, b) == [op |-> op, a |-> a, b |-> b]

\* how one build resolves what the language leaves open: whether an access
\* beyond the end of a vector ends the process ("crash") or goes on ("go")
\* with junk as the channel value read, and the order std::sort leaves
\* entries of equal L in
Env(ub, junk, tie) == [ub |-> ub, junk |-> junk, tie |-> tie]
Envs == { Env(ub, junk, tie) : ub \in {"crash", "go"}, junk \in {0, ChanMax},
                               tie \in {"up", "down"} }
Env0 == Env("go", 0, "up")

\* the state of main between two commands, and what the last command
\* printed (out) and whether it accessed a vector out of range (oob)
PalState(ap, dm, out, oob, status) ==
    [allpal |-> ap, dm |-> dm, out |-> out, oob |-> oob, status |-> status]

\* mpalette &mpal = xter.first->second
MpalOf(ap) == ap["0"]

\* allpal[name], which inserts an empty palette for a new name
Touch(ap, name) ==
    [n \in DOMAIN ap \cup {name} |-> IF n \in DOMAIN ap THEN ap[n] ELSE EmptyPalette]

\* the commands that replace mpal.ra or mpal.la, with the mod_ra or mod_la
\* at the end of the loop body
WithRa(mpal, ra) == mod_ra([mpal EXCEPT !.ra = ra])
WithLa(mpal, la) == mod_la([mpal EXCEPT !.la = la])

\* whether the command indexes mpal.ra, mpal.la or the other operand of
\* blend beyond the end
OutOfRange(ap, c) ==
    CASE c.op = "b0" -> Len(MpalOf(ap).la) = 0 \/ Len(MpalOf(ap).ra) = 0
      [] c.op = "xterm" -> Len(MpalOf(ap).ra) < 16
      [] c.op = "eq" -> Len(MpalOf(ap).la) < 16
      [] c.op = "loeq" -> Len(MpalOf(ap).la) < 9
      [] c.op = "blend" ->
            c.b \in DOMAIN ap /\ BlendOutOfRange(MpalOf(ap).ra, ap[c.b].ra)
      [] OTHER -> FALSE

\* the junk entry an access beyond the end reads
JunkRgb(env) == Srgb888(env.junk, env.junk, env.junk)

\* equalize on a vector shorter than sbl_size that goes on: the sort reads
\* and the loop writes beyond the end, the entries of the vector stay
EqualizeOr(la, n, blue, gray, tie) ==
    IF Len(la) < n THEN la ELSE equalize(la, n, blue, gray, tie)

\* b0: mpal.la[0] = {0,0,0}; mpal.ra[0] = {0,0,0}; a write beyond the end
\* that goes on leaves the entries of the vector as they are
SetFirst(vec, v) == IF vec = <<>> THEN vec ELSE [vec EXCEPT ![1] = v]
B0(mpal) ==
    [mpal EXCEPT !.la = SetFirst(@, Lch(0, 0, 0)), !.ra = SetFirst(@, Srgb888(0, 0, 0))]

\* mpal after a command that mutates the working palette only
NewMpal(ap, mpal, c, env) ==
    CASE c.op = "vga" -> WithRa(mpal, vga_palette)
      [] c.op = "win" -> WithRa(mpal, win_palette)
      [] c.op = "blend" ->
            IF c.b \in DOMAIN ap
            THEN WithRa(mpal, do_blend(mpal.ra, ap[c.b].ra, c.a, JunkRgb(env)))
            ELSE mpal
      [] c.op = "hsltint" -> WithRa(mpal, hsltint(c.a, mpal.la))
      [] c.op = "lchtint" ->
            WithLa(mpal, lchtint(to_lch1(srgb_to_srgb888(hsl_to_srgb(c.a))), mpal.la))
      [] c.op = "b0" -> B0(mpal)
      [] c.op = "inv16" -> WithRa(mpal, inv16(mpal.ra))
      [] c.op = "loeq" -> WithLa(mpal, EqualizeOr(mpal.la, 9, 1111, 8888, env.tie))
      [] c.op = "eq" -> WithLa(mpal, EqualizeOr(mpal.la, 16, 625, 10000, env.tie))
      [] c.op = "syncfromrgb" -> mod_ra(mpal)
      [] c.op = "syncfromlch" -> mod_la(mpal)
      [] OTHER -> mpal

\* emit_xterm: 16 entries of pal
emit_xterm(pal, env) == [i \in 1..16 |-> ElemOr(pal, i - 1, JunkRgb(env))]

\* an output in which cxl goes through the lightness of cxa
Output_cxlwhite(ap, dm, c, env) ==
    CASE c.op = "lch" -> [kind |-> "lch", la |-> MpalOf(ap).la]
      [] c.op = "xfce" -> [kind |-> "xfce", ra |-> MpalOf(ap).ra]
      [] c.op = "xterm" -> [kind |-> "xterm", ra |-> emit_xterm(MpalOf(ap).ra, env)]
      [] c.op = "cxl" /\ Len(MpalOf(ap).la) >= 16 ->
            [cxa_command(MpalOf(ap).ra, dm) EXCEPT !.kind = "cxl"]
      [] c.op = "cxa" /\ Len(MpalOf(ap).ra) >= 16 -> cxa_command(MpalOf(ap).ra, dm)
      [] OTHER -> <<>>

\* what a command prints to stdout
Output(ap, dm, c, env) ==
    CASE c.op = "lch" -> [kind |-> "lch", la |-> MpalOf(ap).la]
      [] c.op = "xfce" -> [kind |-> "xfce", ra |-> MpalOf(ap).ra]
      [] c.op = "xterm" -> [kind |-> "xterm", ra |-> emit_xterm(MpalOf(ap).ra, env)]
      [] c.op = "cxl" /\ Len(MpalOf(ap).la) >= 16 -> cxl_command(MpalOf(ap).la)
      [] c.op = "cxa" /\ Len(MpalOf(ap).ra) >= 16 -> cxa_command(MpalOf(ap).ra, dm)
      [] OTHER -> <<>>

\* allpal after loadreg= and savereg=
LoadReg(ap, name) == [Touch(ap, name) EXCEPT !["0"] = Touch(ap, name)[name]]
SaveReg(ap, name) == [Touch(ap, name) EXCEPT ![name] = ap["0"]]

\* main after do_eval
AfterEval(st, r) ==
    PalState([st.allpal EXCEPT !["0"] = r.mpal], st.dm, <<>>, FALSE,
             IF r.ret # 0 THEN "fail" ELSE "run")

\* an ild that loads the VGA palette as well
Ild_reload(st, t) ==
    PalState([st.allpal EXCEPT !["0"] = WithRa(@, vga_palette)],
             make_lrgb_matrix(to_xyz(illuminant_d(t))), <<>>, FALSE, "run")

\* ild=t: xyz_to_lrgb_matrix = make_lrgb_matrix(to_xyz(illuminant_d(arg1)))
Ild(st, t) ==
    PalState(st.allpal, make_lrgb_matrix(to_xyz(illuminant_d(t))), <<>>, FALSE, "run")

\* one round of the loop over argv
RunCmd(st, c, env) ==
    IF OutOfRange(st.allpal, c) /\ env.ub = "crash"
    THEN PalState(st.allpal, st.dm, <<>>, TRUE, "crash")
    ELSE CASE c.op = "loadreg" ->
                PalState(LoadReg(st.allpal, c.a), st.dm, <<>>, FALSE, "run")
           [] c.op = "savereg" ->
                PalState(SaveReg(st.allpal, c.a), st.dm, <<>>, FALSE, "run")
           [] c.op = "eval" ->
                AfterEval(st, do_eval(c.a, MpalOf(st.allpal), c.b, env.junk))
           [] c.op = "ild" -> Ild(st, c.a)
           [] OTHER ->
                PalState([st.allpal EXCEPT
                             !["0"] = NewMpal(st.allpal, MpalOf(st.allpal), c, env)],
                         st.dm, Output(st.allpal, st.dm, c, env),
                         OutOfRange(st.allpal, c), "run")

\* the state main starts the loop in
PalState0 == PalState([n \in {"0"} |-> EmptyPalette], DefaultMatrix, <<>>, FALSE, "run")

RECURSIVE Run(_, _)
\* main for the command words cs, every command resolved by Env0
Run(st, cs) ==
    IF cs = <<>> \/ st.status # "run" THEN st
    ELSE Run(RunCmd(st, Head(cs), Env0), Tail(cs))


\* the register names of the model: "0" is the working palette, "q" is a
\* name no savereg or loadreg of the model uses
RegNames == {"0", "a"}
BlendNames == {"a", "q"}
BlendPcts == {50, 100}
Temperatures == {5000, 6500}

\* expressions with a parse error: an operator first, an operator last,
\* two operators, two operands, empty parentheses, an unknown character, a
\* missing and a surplus closing parenthesis
ExprOpFirst == <<"=", "l">>
ExprOpLast == <<"l", "=">>
ExprTwoOps == <<"l", "=", "=", "5">>
ExprTwoOperands == <<"l", "5">>
ExprEmptyParen == <<"l", "=", "(", ")">>
ExprUnknownChar == <<"l", "=", "$">>
ExprUnclosed == <<"(", "l", "=", "5">>
ExprSurplus == <<"l", "=", "5", ")">>
BadExprs == { ExprOpFirst, ExprOpLast, ExprTwoOps, ExprTwoOperands,
              ExprEmptyParen, ExprUnknownChar, ExprUnclosed, ExprSurplus }

\* expressions without one: assignments to l, h, r and x, y, and one whose
\* second part has no register on the left
ExprHue == <<"h", "=", "h", "+", "9", "0">>
ExprRed == <<"r", "=", "r", "+", "1">>
ExprTyped == <<"l", "=", "5", ",", "5", "=", "1">>
GoodExprs == { ExprSum, ExprChain, ExprHue, ExprRed, ExprTyped }

\* the eval commands of the model: every expression as eval=, the ones
\* without a parse error as eval@7= too, and one as eval@16=, whose index
\* is beyond the end
EvalCmds ==
    { Cmd("eval", text, <<>>) : text \in BadExprs \cup GoodExprs }
        \cup { Cmd("eval", text, <<7>>) : text \in GoodExprs }
        \cup { Cmd("eval", ExprSum, <<16>>) }

PInit ==
    /\ allpal = PalState0.allpal
    /\ xyz_to_lrgb_matrix = PalState0.dm
    /\ p_status = "run"
    /\ p_out = <<>>
    /\ p_oob = FALSE
    /\ p_cmds = <<>>
    /\ p_before = PalState0.allpal
    /\ POnly

\* the loop body of main for the command word c
PalStep(c, env) ==
    /\ p_status = "run"
    /\ Len(p_cmds) < MaxCmds
    /\ \E st \in {RunCmd(PalState(allpal, xyz_to_lrgb_matrix, p_out, p_oob, p_status),
                         c, env)} :
          /\ allpal' = st.allpal
          /\ xyz_to_lrgb_matrix' = st.dm
          /\ p_out' = st.out
          /\ p_oob' = st.oob
          /\ p_status' = st.status
    /\ p_cmds' = Append(p_cmds, c)
    /\ p_before' = allpal
    /\ UNCHANGED nonp

CmdPalette == \E op \in {"vga", "win"} : PalStep(Cmd(op, 0, 0), Env0)
CmdLoadreg == \E n \in RegNames : PalStep(Cmd("loadreg", n, 0), Env0)
CmdSavereg == \E n \in RegNames : PalStep(Cmd("savereg", n, 0), Env0)
CmdBlend ==
    \E pct \in BlendPcts, n \in BlendNames, env \in Envs :
        env.tie = "up" /\ PalStep(Cmd("blend", pct, n), env)
CmdEval ==
    \E c \in EvalCmds, junk \in {0, ChanMax} : PalStep(c, Env("go", junk, "up"))
CmdIld == \E t \in Temperatures : PalStep(Cmd("ild", t, 0), Env0)
CmdEmit ==
    \E op \in {"lch", "xfce", "xterm"}, env \in Envs :
        env.tie = "up" /\ PalStep(Cmd(op, 0, 0), env)
CmdTint ==
    \E op \in {"hsltint", "lchtint"}, base \in HslBases : PalStep(Cmd(op, base, 0), Env0)
CmdB0 == \E ub \in {"crash", "go"} : PalStep(Cmd("b0", 0, 0), Env(ub, 0, "up"))
CmdInv16 == PalStep(Cmd("inv16", 0, 0), Env0)
CmdContrast == \E op \in {"cxl", "cxa"} : PalStep(Cmd(op, 0, 0), Env0)
CmdEqualize ==
    \E op \in {"eq", "loeq"}, ub \in {"crash", "go"}, tie \in {"up", "down"} :
        PalStep(Cmd(op, 0, 0), Env(ub, 0, tie))
CmdSync == \E op \in {"syncfromrgb", "syncfromlch"} : PalStep(Cmd(op, 0, 0), Env0)
CmdUnrecognized == PalStep(Cmd("unknown", 0, 0), Env0)

\* return EXIT_SUCCESS after the last command word
PalExit ==
    /\ p_status = "run"
    /\ p_status' = "ok"
    /\ UNCHANGED <<allpal, xyz_to_lrgb_matrix, p_out, p_oob, p_cmds, p_before>>
    /\ UNCHANGED nonp

PalNext ==
    \/ CmdPalette \/ CmdLoadreg \/ CmdSavereg \/ CmdBlend \/ CmdEval \/ CmdIld
    \/ CmdEmit \/ CmdTint \/ CmdB0 \/ CmdInv16 \/ CmdContrast \/ CmdEqualize
    \/ CmdSync \/ CmdUnrecognized \/ PalExit

SpecPal == PInit /\ [][PalNext]_vars


(***************************************************************************)
(* palcomp: properties                                                     *)
(***************************************************************************)
\* entry i of the two arrays of a palette agrees under one of the two
\* conversions
CoherentAt(mpal, i) ==
    \/ mpal.la[i] = to_lch1(mpal.ra[i])
    \/ mpal.ra[i] = to_srgb8881(mpal.la[i])
Coherent(mpal) ==
    /\ Len(mpal.ra) = Len(mpal.la)
    /\ \A i \in 1..Len(mpal.ra) : CoherentAt(mpal, i)

\* C13: after every command of every command sequence the sRGB888 array
\* and the LCh array of the working palette have the same length, and every
\* entry satisfies la[i] = to_lch(ra[i]) or ra[i] = to_srgb888(la[i]).
C13_Coherent == p_status # "idle" => Coherent(MpalOf(allpal))

\* an assignment inside an eval expression has changed the LCh side of a
\* 16-entry palette, which is no longer the conversion of the sRGB side
C13_Witness ==
    /\ p_cmds # <<>>
    /\ p_cmds[Len(p_cmds)].op = "eval"
    /\ p_status = "run"
    /\ Len(MpalOf(allpal).ra) = 16
    /\ MpalOf(allpal) # MpalOf(p_before)
    /\ MpalOf(allpal).la # to_lch(MpalOf(allpal).ra)


\* the last command word, if any
LastCmd == IF p_cmds = <<>> THEN Cmd("none", 0, 0) ELSE p_cmds[Len(p_cmds)]

\* C15: an expression with a parse error makes do_eval return non-zero
\* without modifying any palette entry or the x, y, z scalars, and palcomp
\* then exits with failure, the palette as the earlier commands left it.
C15_ParseError ==
    (LastCmd.op = "eval" /\ LastCmd.a \in BadExprs) =>
        (p_status = "fail" /\ allpal = p_before)


\* the commands that work on the entries of the palette they find
EntryCmds == {"b0", "eq", "loeq", "xterm", "blend", "cxl", "cxa"}

\* C16: a command issued while the working palette has fewer than 16
\* entries performs no out-of-range access to the sRGB or LCh array and
\* leaves the palette unchanged (b0, eq, loeq, xterm, blend, cxl, cxa).
C16_ShortPalette ==
    (LastCmd.op \in EntryCmds /\ Len(MpalOf(p_before).ra) < 16) =>
        (~p_oob /\ MpalOf(allpal) = MpalOf(p_before))


\* the command words vga ild=t cxl
VgaIldCxl(t) == <<Cmd("vga", 0, 0), Cmd("ild", t, 0), Cmd("cxl", 0, 0)>>

\* the command words so far are vga ild=t cxl
RanVgaIldCxl(t) ==
    /\ Len(p_cmds) = 3
    /\ p_cmds[1].op = "vga"
    /\ p_cmds[2].op = "ild"
    /\ p_cmds[2].a = t
    /\ p_cmds[3].op = "cxl"

\* C19 as stated: on the VGA palette, vga ild=5000 cxl and vga ild=6500 cxl
\* produce different delta[7][0] values in the cxl analysis.
C19_DeltaDiffers ==
    RanVgaIldCxl(5000) =>
        p_out.delta[7][0] # Run(PalState0, VgaIldCxl(6500)).out.delta[7][0]

\* C19, amended: vga ild=5000 cxl and vga ild=6500 cxl print the same cxl
\* analysis, delta[7][0] included, which is the one of vga cxl: the white
\* point set by ild does not reach cxl.
C19_DeltaSame ==
    \A t \in Temperatures :
        RanVgaIldCxl(t) =>
            /\ p_out = Run(PalState0, VgaIldCxl(6500)).out
            /\ p_out = cxl_command(to_lch(vga_palette))
            /\ p_out.delta[7][0] = Abs(to_lch1(vga_palette[1]).l - to_lch1(vga_palette[8]).l)

\* vga ild=5000 cxl has run: the matrix is no longer the one of 6500 K and
\* cxl has printed its table
C19_Witness ==
    /\ RanVgaIldCxl(5000)
    /\ p_status = "run"
    /\ xyz_to_lrgb_matrix # DefaultMatrix
    /\ p_out # <<>>
    /\ p_out.kind = "cxl"
    /\ p_out.delta[7][0] > 0

\* the matrices ild=t sets
Matrices == { make_lrgb_matrix(to_xyz(illuminant_d(t))) : t \in Temperatures }

\* the last command, run from the state before it with the matrix dm and
\* resolved by env, ends with the palettes and the output it did end with
SameWith(dm, env) ==
    \E st \in {RunCmd(PalState(p_before, dm, <<>>, FALSE, "run"), LastCmd, env)} :
        /\ st.allpal = allpal
        /\ st.out = p_out
        /\ st.status = p_status

\* C20: ild=T changes only the XYZ-to-linear-RGB matrix (the sRGB888 array,
\* the LCh array, x, y, z and every saved register stay), and the palettes
\* and the output after every command other than cxa and ild (before main
\* returns) are the ones the command gives for every T.
C20_IldFrame ==
    /\ LastCmd.op = "ild" =>
          allpal = p_before /\ xyz_to_lrgb_matrix \in Matrices
    /\ (p_status # "ok" /\ LastCmd.op \notin {"none", "ild", "cxa"}) =>
          \A dm \in Matrices : SameWith(dm, Env0) \/ \E env \in Envs : SameWith(dm, env)

\* cxa after ild=5000 on a 16-entry palette: its output is not the one it
\* has for 6500 K, and ild has left the palette in place
C20_Witness ==
    /\ Len(p_cmds) = 3
    /\ p_cmds[2].op = "ild"
    /\ LastCmd.op = "cxa"
    /\ xyz_to_lrgb_matrix # DefaultMatrix
    /\ Len(MpalOf(allpal).ra) = 16
    /\ p_out # <<>>
    /\ p_out # cxa_command(MpalOf(allpal).ra, DefaultMatrix)


(***************************************************************************)
(* vfontas: the command loop of main                                       *)
(***************************************************************************)
MaxArgs == 3

\* the characters of the words, in the order of their codes
Chars == <<"-", ".", "0", "1", "2", "3", "4", "5", "6", "7", "8", "9", "a", "b", "c", "d", "e", "f", "g", "h", "i", "j", "k", "l", "m", "n", "o", "p", "q", "r", "s", "t", "u", "v", "w", "x", "y", "z">>
CharCode(c) == CHOOSE i \in 1..Len(Chars) : Chars[i] = c

\* strcmp on words written as sequences of characters
RECURSIVE strcmp(_, _)
strcmp(a, b) ==
    IF a = <<>> /\ b = <<>> THEN 0
    ELSE IF a = <<>> THEN -1
    ELSE IF b = <<>> THEN 1
    ELSE IF Head(a) # Head(b) THEN CharCode(Head(a)) - CharCode(Head(b))
    ELSE strcmp(Tail(a), Tail(b))

\* struct vf_command and vf_commlist
VfCommand(cmd, nargs) == [cmd |-> cmd, nargs |-> nargs]
vf_commlist ==
    << VfCommand(<<"b", "l", "a", "n", "k", "f", "n", "t">>, 0),
       VfCommand(<<"c", "a", "n", "v", "a", "s">>, 2),
       VfCommand(<<"c", "l", "e", "a", "r", "m", "a", "p">>, 0),
       VfCommand(<<"c", "o", "p", "y">>, 6),
       VfCommand(<<"c", "p", "i", "s", "e", "p">>, 1),
       VfCommand(<<"c", "r", "o", "p">>, 4),
       VfCommand(<<"f", "l", "i", "p", "h">>, 0),
       VfCommand(<<"f", "l", "i", "p", "v">>, 0),
       VfCommand(<<"i", "n", "v", "e", "r", "t">>, 0),
       VfCommand(<<"l", "g", "e">>, 0),
       VfCommand(<<"l", "g", "e", "u">>, 0),
       VfCommand(<<"l", "g", "e", "u", "f">>, 0),
       VfCommand(<<"l", "o", "a", "d", "b", "d", "f">>, 1),
       VfCommand(<<"l", "o", "a", "d", "c", "l", "t">>, 1),
       VfCommand(<<"l", "o", "a", "d", "f", "n", "t">>, 1),
       VfCommand(<<"l", "o", "a", "d", "h", "e", "x">>, 1),
       VfCommand(<<"l", "o", "a", "d", "m", "a", "p">>, 1),
       VfCommand(<<"l", "o", "a", "d", "p", "c", "f">>, 1),
       VfCommand(<<"l", "o", "a", "d", "p", "s", "f">>, 1),
       VfCommand(<<"l", "o", "a", "d", "r", "a", "w">>, 3),
       VfCommand(<<"m", "o", "v", "e">>, 2),
       VfCommand(<<"o", "v", "e", "r", "s", "t", "r", "i", "k", "e">>, 1),
       VfCommand(<<"s", "a", "v", "e", "b", "d", "f">>, 1),
       VfCommand(<<"s", "a", "v", "e", "c", "l", "t">>, 1),
       VfCommand(<<"s", "a", "v", "e", "f", "n", "t">>, 1),
       VfCommand(<<"s", "a", "v", "e", "m", "a", "p">>, 1),
       VfCommand(<<"s", "a", "v", "e", "n", "1">>, 1),
       VfCommand(<<"s", "a", "v", "e", "n", "2">>, 1),
       VfCommand(<<"s", "a", "v", "e", "n", "2", "e", "v">>, 1),
       VfCommand(<<"s", "a", "v", "e", "p", "b", "m">>, 1),
       VfCommand(<<"s", "a", "v", "e", "p", "s", "f">>, 1),
       VfCommand(<<"s", "a", "v", "e", "s", "f", "d">>, 1),
       VfCommand(<<"s", "e", "t", "b", "o", "l", "d">>, 0),
       VfCommand(<<"s", "e", "t", "n", "a", "m", "e">>, 1),
       VfCommand(<<"s", "e", "t", "p", "r", "o", "p">>, 2),
       VfCommand(<<"u", "p", "s", "c", "a", "l", "e">>, 2),
       VfCommand(<<"x", "c", "p", "i">>, 2),
       VfCommand(<<"x", "c", "p", "i", ".", "i", "c", "e">>, 2),
       VfCommand(<<"x", "l", "a", "t">>, 2) >>

\* bsearch(key, vf_commlist, ...) between the bounds l and u: the index of
\* the entry found, 0 for a null pointer
RECURSIVE bsearch(_, _, _)
BsearchAt(key, l, u, idx, comparison) ==
    IF comparison < 0 THEN bsearch(key, l, idx)
    ELSE IF comparison > 0 THEN bsearch(key, idx + 1, u)
    ELSE idx + 1
bsearch(key, l, u) ==
    IF l >= u THEN 0
    ELSE BsearchAt(key, l, u, (l + u) \div 2,
                   strcmp(key, vf_commlist[(l + u) \div 2 + 1].cmd))

\* a word with every leading '-' removed
RECURSIVE StripDash_all(_)
StripDash_all(word) ==
    IF word # <<>> /\ Head(word) = "-" THEN StripDash_all(Tail(word)) ELSE word

\* if (argv[0][0] == '-') ++argv[0];
StripDash(word) == IF word # <<>> /\ Head(word) = "-" THEN Tail(word) ELSE word

\* the words of the model: commands of 0, 1, 2 and 4 arguments, with and
\* without dashes, an unknown command, a number, a lone dash
VfWords ==
    { <<"f","l","i","p","h">>, <<"-","f","l","i","p","h">>,
      <<"-","-","f","l","i","p","h">>, <<"s","e","t","n","a","m","e">>,
      <<"-","c","a","n","v","a","s">>, <<"c","r","o","p">>,
      <<"x","c","p","i",".","i","c","f">>, <<"3">>, <<"-">> }

AInit ==
    /\ \E n \in 0..MaxArgs : a_argv \in [1..n -> VfWords]
    /\ a_pos = 1
    /\ a_status = "run"
    /\ a_log = <<>>
    /\ AOnly

\* one handler call
VfCall(at, ce, args, ok) == [at |-> at, cmd |-> ce.cmd, args |-> args, ok |-> ok]

\* the body of the while loop after bsearch, where ce is the index found and
\* ok is what the handler returns
VfBody(ce, ok) ==
    IF ce = 0 THEN a_status' = "fail" /\ UNCHANGED <<a_pos, a_log>>
    ELSE IF Len(a_argv) - a_pos < vf_commlist[ce].nargs
    THEN a_status' = "fail" /\ UNCHANGED <<a_pos, a_log>>
    ELSE /\ a_log' = Append(a_log,
                VfCall(a_pos, vf_commlist[ce],
                       SubSeq(a_argv, a_pos + 1, a_pos + vf_commlist[ce].nargs), ok))
         /\ IF ok THEN a_status' = "run" /\ a_pos' = a_pos + 1 + vf_commlist[ce].nargs
            ELSE a_status' = "fail" /\ UNCHANGED a_pos

\* one round of while (argc > 0)
VfCommandStep ==
    /\ a_status = "run"
    /\ a_pos <= Len(a_argv)
    /\ \E ok \in BOOLEAN :
          VfBody(bsearch(StripDash(a_argv[a_pos]), 0, Len(vf_commlist)), ok)
    /\ UNCHANGED a_argv
    /\ UNCHANGED nona

\* return EXIT_SUCCESS
VfExit ==
    /\ a_status = "run"
    /\ a_pos > Len(a_argv)
    /\ a_status' = "ok"
    /\ UNCHANGED <<a_argv, a_pos, a_log>>
    /\ UNCHANGED nona

ANext == VfCommandStep \/ VfExit

SpecA == AInit /\ [][ANext]_vars


\* the entries of vf_commlist a command word names, with or without one
\* leading '-'
Named(word) ==
    {k \in 1..Len(vf_commlist) :
        word = vf_commlist[k].cmd \/ word = <<"-">> \o vf_commlist[k].cmd}

\* the position of the word after handler call i and its arguments
AfterCall(i) == IF i = 0 THEN 1 ELSE a_log[i].at + 1 + Len(a_log[i].args)

\* handler call i took the command word next in line and exactly the
\* declared number of words after it
CallInOrder(i) ==
    /\ a_log[i].at = AfterCall(i - 1)
    /\ \E k \in Named(a_argv[a_log[i].at]) :
          /\ a_log[i].cmd = vf_commlist[k].cmd
          /\ Len(a_log[i].args) = vf_commlist[k].nargs
    /\ a_log[i].args = SubSeq(a_argv, a_log[i].at + 1, a_log[i].at + Len(a_log[i].args))
    /\ a_log[i].at + Len(a_log[i].args) <= Len(a_argv)

\* the word at a_pos is no command, or has too few words after it
Rejected ==
    /\ a_pos <= Len(a_argv)
    /\ \A k \in Named(a_argv[a_pos]) : Len(a_argv) - a_pos < vf_commlist[k].nargs

\* C17: the command words are processed left to right; a recognised command
\* (one leading '-' ignored) consumes exactly its declared number of words;
\* main fails at the first unknown command, command with too few remaining
\* words or failing handler, with no later handler call; it returns 0 if
\* every command succeeded.
C17_CommandLoop ==
    a_status # "idle" =>
        /\ \A i \in 1..Len(a_log) : CallInOrder(i)
        /\ \A i \in 1..(Len(a_log) - 1) : a_log[i].ok
        /\ a_status = "run" =>
              a_pos = AfterCall(Len(a_log)) /\ \A i \in 1..Len(a_log) : a_log[i].ok
        /\ a_status = "ok" =>
              /\ AfterCall(Len(a_log)) = Len(a_argv) + 1
              /\ \A i \in 1..Len(a_log) : a_log[i].ok
        /\ a_status = "fail" =>
              \/ a_log # <<>> /\ ~a_log[Len(a_log)].ok
              \/ (\A i \in 1..Len(a_log) : a_log[i].ok)
                    /\ a_pos = AfterCall(Len(a_log)) /\ Rejected

\* main has returned 0 after a command written with a leading '-' and a
\* command with an argument
C17_Witness ==
    /\ a_status = "ok"
    /\ Len(a_log) = 2
    /\ a_argv[1] # a_log[1].cmd
    /\ Len(a_log[2].args) = 1

\* main has failed at an unknown command after a handler call
C17_WitnessFail ==
    /\ a_status = "fail"
    /\ Len(a_log) = 1
    /\ a_log[1].ok
    /\ a_pos <= Len(a_argv)
    /\ Named(a_argv[a_pos]) = {}


(***************************************************************************)
(* vfontas: the commands that index m_glyph through the unicode map        *)
(***************************************************************************)
MaxN == 2

\* cand[] of font::lgeu (0x2500 .. 0x2590)
lgeu_cand ==
    { 9472, 9484, 9492, 9496, 9500, 9516, 9524, 9532, 9552, 9554, 9555,
      9556, 9560, 9561, 9562, 9566, 9567, 9568, 9572, 9573, 9574, 9575,
      9576, 9577, 9578, 9579, 9580, 9600, 9604, 9608, 9612, 9616 }

\* the code points of the model: 'A', 'M', 0x2500 (in cand), 0x2592 (in
\* the ranges of lgeuf only)
UCodePoints == {65, 77, 9472, 9618}

\* font::lgeu: m_glyph[it->second] for every candidate found in m_u2i
LgeuAccess(u2i) == {u2i[uc] : uc \in lgeu_cand \cap DOMAIN u2i}

\* font::lgeuf: the three loops from lower_bound to upper_bound
LgeufRange(u2i, lo, hi) == {u2i[uc] : uc \in {c \in DOMAIN u2i : lo <= c /\ c <= hi}}
LgeufAccess(u2i) ==
    LgeufRange(u2i, 9472, 9617) \cup LgeufRange(u2i, 9617, 9620)
        \cup LgeufRange(u2i, 9620, 9728)

\* font::save_bdf: m_glyph[0] for sz0 if there is a glyph, and
\* save_bdf_glyph for every index, or for every pair of m_u2i
SaveBdfAccess(n, has_map, u2i) ==
    (IF n > 0 THEN {0} ELSE {})
        \cup (IF ~has_map THEN 0..(n - 1) ELSE {u2i[uc] : uc \in DOMAIN u2i})

\* font::find_ascent_descent: 'M', 'X', 'x'
FindAscentDescentAccess(n, has_map, u2i) ==
    IF n = 0 THEN {}
    ELSE IF ~has_map \/ DOMAIN u2i = {}
    THEN {c \in {77, 88, 120} : n >= c} \cup {0}
    ELSE {u2i[c] : c \in {77, 88, 120} \cap DOMAIN u2i} \cup {0}

\* font::save_sfd_glyph: if (idx >= m_glyph.size()) return;
SaveSfdGlyphAccess(n, idx) == IF idx >= n THEN {} ELSE {idx}

\* font::save_sfd
SaveSfdAccess(n, has_map, u2i) ==
    FindAscentDescentAccess(n, has_map, u2i)
        \cup UNION { SaveSfdGlyphAccess(n, idx) :
                        idx \in IF ~has_map THEN 0..(n - 1)
                                ELSE {u2i[uc] : uc \in DOMAIN u2i} }

\* the glyphs a command indexes
UAccess(cmd, n, has_map, u2i) ==
    CASE cmd = "lgeu" -> IF has_map THEN LgeuAccess(u2i) ELSE {}
      [] cmd = "lgeuf" -> IF has_map THEN LgeufAccess(u2i) ELSE {}
      [] cmd = "savebdf" -> SaveBdfAccess(n, has_map, u2i)
      [] OTHER -> SaveSfdAccess(n, has_map, u2i)

\* a font of 0..MaxN glyphs without a unicode map
UInit ==
    /\ u_nglyph \in 0..MaxN
    /\ u_has_map = FALSE
    /\ u_u2i = <<>>
    /\ u_cmd = "none"
    /\ u_access = {}
    /\ u_status = "run"
    /\ UOnly

\* loadmap of a file with the line "idx U+uc": the map is created if the
\* font has none, and unicode_map::load calls add_i2u(idx, uc)
ULoadMap ==
    /\ u_status = "run"
    /\ \E idx \in 0..MaxN, uc \in UCodePoints : u_u2i' = AddToU2i(u_u2i, uc, idx)
    /\ u_has_map' = TRUE
    /\ u_cmd' = "loadmap"
    /\ u_access' = {}
    /\ UNCHANGED <<u_nglyph, u_status>>
    /\ UNCHANGED nonu

\* lgeu, lgeuf, savebdf, and savesfd (saven1, saven2, saven2ev alike); an
\* access beyond the end of m_glyph ends the process or goes on
UCommand(cmd) ==
    /\ u_status = "run"
    /\ u_cmd' = cmd
    /\ u_access' = UAccess(cmd, u_nglyph, u_has_map, u_u2i)
    /\ \/ u_status' = "run"
       \/ (\E i \in u_access' : i >= u_nglyph) /\ u_status' = "crash"
    /\ UNCHANGED <<u_nglyph, u_has_map, u_u2i>>
    /\ UNCHANGED nonu

ULgeu == UCommand("lgeu")
ULgeuf == UCommand("lgeuf")
USaveBdf == UCommand("savebdf")
USaveSfd == UCommand("savesfd")

UNext == ULoadMap \/ ULgeu \/ ULgeuf \/ USaveBdf \/ USaveSfd

SpecU == UInit /\ [][UNext]_vars

\* the unicode map has a code point whose index is no glyph of the font
MapBeyondGlyphs == \E uc \in DOMAIN u_u2i : u_u2i[uc] >= u_nglyph

\* C18: while the unicode map contains a code point mapped to an index that
\* is not smaller than the number of glyphs, no command (lgeu, lgeuf,
\* savebdf, savesfd, saven1, saven2, saven2ev) indexes the glyph sequence
\* out of range.
C18_NoOutOfRange ==
    (MapBeyondGlyphs /\ u_cmd \in {"lgeu", "lgeuf", "savebdf", "savesfd"}) =>
        \A i \in u_access : i < u_nglyph


(***************************************************************************)
(* palcomp: the commands eq, eq=b, loeq, loeq=b and loeq=b,g               *)
(***************************************************************************)
\* number of entries of a palette that vga, win or loadpal loaded
PalLen == 16

\* the command word: op, whether a number follows '=' and ',' and the
\* numbers strtod reads there (hundredths)
EqArg(op, has_b, b, has_g, g) == <<op, has_b, b, has_g, g>>
ArgOp(arg) == arg[1]
ArgHasB(arg) == arg[2]
ArgB(arg) == arg[3]
ArgHasG(arg) == arg[4]
ArgG(arg) == arg[5]

\* main: the arguments of the call of equalize for a command word
\* (sbl_size, blue, gray): 100 / 9.0, 100 * 8 / 9.0, 100 / 16.0 and 100
\* in hundredths
EqCall(arg) ==
    CASE ArgOp(arg) = "loeq" /\ ~ArgHasB(arg) -> <<9, 1111, 8888>>
      [] ArgOp(arg) = "loeq" /\ ArgHasB(arg) ->
            <<9, ArgB(arg), IF ArgHasG(arg) THEN ArgG(arg) ELSE 8888>>
      [] ArgOp(arg) = "eq" /\ ~ArgHasB(arg) -> <<16, 625, 10000>>
      [] ArgOp(arg) = "eq" /\ ArgHasB(arg) -> <<16, ArgB(arg), 10000>>

\* LCh arrays of a loaded palette, with equal and with distinct L values,
\* and the empty array of a run that loaded no palette
EqArrays ==
    {<<>>, to_lch(vga_palette), to_lch(win_palette)}
        \cup { [i \in 1..PalLen |-> Lch((i * m) % d, i % 2, i % 3)] :
                 m \in {3, 5, 7}, d \in {4, 5, 17} }

\* values of b and g (0 <= b <= g <= 100), in hundredths
EqBlues == {0, 625, 1111, 3000}
EqGrays == {8888, 10000}

QInit ==
    /\ q_la \in EqArrays
    /\ q_tie \in {"up", "down"}
    /\ q_arg = <<>>
    /\ q_out = <<>>
    /\ q_pc = "la"
    /\ QOnly

\* the branch of main for the command word arg, on an array that holds
\* the entries the command selects
EqCommand(arg) ==
    /\ q_pc = "la"
    /\ Len(q_la) >= EqCall(arg)[1]
    /\ q_arg' = arg
    /\ q_out' = equalize(q_la, EqCall(arg)[1], EqCall(arg)[2], EqCall(arg)[3], q_tie)
    /\ q_pc' = "equalized"
    /\ UNCHANGED <<q_la, q_tie>>
    /\ UNCHANGED nonq

\* the same branch on an array without the selected entries: the sort and
\* the loop of equalize index it beyond its end (undefined behaviour); the
\* process ends there, or goes on with the array as it is
EqBeyondEnd(arg, ub) ==
    /\ q_pc = "la"
    /\ Len(q_la) < EqCall(arg)[1]
    /\ q_arg' = arg
    /\ q_out' = q_la
    /\ q_pc' = IF ub = "crash" THEN "crash" ELSE "equalized"
    /\ UNCHANGED <<q_la, q_tie>>
    /\ UNCHANGED nonq

CmdEqShort ==
    \E op \in {"eq", "loeq"}, ub \in {"crash", "go"} :
        EqBeyondEnd(EqArg(op, FALSE, 0, FALSE, 0), ub)

\* eq and loeq; eq=b; loeq=b; loeq=b,g
CmdEqPlain == \E op \in {"eq", "loeq"} : EqCommand(EqArg(op, FALSE, 0, FALSE, 0))
CmdEqB == \E b \in EqBlues : EqCommand(EqArg("eq", TRUE, b, FALSE, 0))
CmdLoeqB == \E b \in EqBlues : EqCommand(EqArg("loeq", TRUE, b, FALSE, 0))
CmdLoeqBG ==
    \E b \in EqBlues, g \in EqGrays : EqCommand(EqArg("loeq", TRUE, b, TRUE, g))

QNext == CmdEqPlain \/ CmdEqB \/ CmdLoeqB \/ CmdLoeqBG \/ CmdEqShort

SpecEq == QInit /\ [][QNext]_vars

\* the L the claim gives the selected entry of rank k
EqTarget(n, b, g, k) == (((g - b) * (k - 1)) \div (n - 2) + b) \div 100

\* the ranks an entry may have in an ascending order of the previous L:
\* after the entries of smaller L, among those of equal L
EqRanks(la, n, z) ==
    Cardinality({x \in 1..n : la[x].l < la[z].l})
        .. (Cardinality({x \in 1..n : la[x].l <= la[z].l}) - 1)

\* d is a darkest selected entry and keeps its L; every other selected
\* entry has the L of one of its ranks, no two of them the same
EqualizedFrom(old, new, n, b, g, d) ==
    /\ \A x \in 1..n : old[d].l <= old[x].l
    /\ new[d].l = old[d].l
    /\ \A z \in (1..n) \ {d} :
          \E k \in EqRanks(old, n, z) :
              k >= 1 /\ new[z].l = old[d].l + EqTarget(n, b, g, k)
    /\ \A z, y \in (1..n) \ {d} : z # y => new[z].l # new[y].l

\* C21: equalizing the first N indices (16 for eq, 9 for loeq) with b and
\* g keeps the L of the darkest selected entry and gives the selected entry
\* of rank k (1 <= k <= N-1, by ascending previous L) the value
\* L_darkest + b + (g - b)*(k - 1)/(N - 2); chroma and hue of every entry
\* and the L of every entry that is not selected are unchanged (an array
\* without entries has no selected entry)
C21_Equalize ==
    q_pc = "equalized" =>
        /\ EqCall(q_arg)[1] = (IF ArgOp(q_arg) = "eq" THEN 16 ELSE 9)
        /\ Len(q_out) = Len(q_la)
        /\ \A i \in 1..Len(q_la) :
              /\ q_out[i].c = q_la[i].c
              /\ q_out[i].h = q_la[i].h
              /\ i > EqCall(q_arg)[1] => q_out[i].l = q_la[i].l
        /\ Len(q_la) >= EqCall(q_arg)[1] =>
              \E d \in 1..EqCall(q_arg)[1] :
                  EqualizedFrom(q_la, q_out, EqCall(q_arg)[1],
                                EqCall(q_arg)[2], EqCall(q_arg)[3], d)

\* loeq=b,g has run on a 16-entry array with entries of equal L: an entry
\* beyond index 8 kept an L that differs from every assigned one, and the
\* lightest selected entry got L_darkest + g
C21_Witness ==
    /\ q_pc = "equalized"
    /\ ArgOp(q_arg) = "loeq" /\ ArgHasG(q_arg) /\ ArgB(q_arg) = 3000 /\ ArgG(q_arg) = 8888
    /\ Len(q_la) = PalLen
    /\ \E x, y \in 1..9 : x # y /\ q_la[x].l = q_la[y].l
    /\ \E z \in 1..9 : q_out[z].l = 88 + q_out[1].l /\ q_out[z].l # q_la[z].l
    /\ \E i \in 10..PalLen : q_out[i].l = q_la[i].l /\ q_la[i].l > 0
    /\ q_out # q_la


(***************************************************************************)
(* Vectorizer: glyphs whose pixels touch at corners                        *)
(***************************************************************************)
\* side of the square glyphs whose set pixels touch only at corners
TouchW == 4

\* no two pixels of pix are horizontal or vertical neighbours
CornersOnly(pix) ==
    \A p, q \in pix : Abs(p[1] - q[1]) + Abs(p[2] - q[2]) # 1

\* the w x w glyphs whose set pixels touch at corners only
TouchGlyphs(w) ==
    {GlyphOf(w, w, pix) : pix \in {p \in SUBSET Cells(w, w) : CornersOnly(p)}}

\* the runs of SpecVec, and the runs on the glyphs of TouchGlyphs
TouchInit ==
    VecStart(SmallGlyphs \cup TouchGlyphs(TouchW),
             {V_SIMPLE, V_N1, V_N2, V_N2EV}, ScaleFactors)

SpecTouch == TouchInit /\ [][VecNext]_vars

(***************************************************************************)
(* Vectorizer: the edges at a vertex                                       *)
(***************************************************************************)
\* the edges of em that start at vertex v
StartingAt(em, v) == {e \in em : e.start_vtx = v}

\* C22: after edge emission and internal_edge_delete, in simple(), n1() and
\* n2() alike, every vertex is the start of at most two edges of the graph
\* (neigh_edges looks at the first two edges that start at a vertex)
C22_AtMostTwo ==
    pc = "popping" =>
        \A e \in emap : Cardinality(StartingAt(emap, e.start_vtx)) <= 2

\* n1() has emitted its edges and deleted the internal ones, no polygon
\* has been popped, and two edges start at one of the vertices
C22_Witness ==
    /\ pc = "popping" /\ vt = V_N1 /\ pmap = <<>>
    /\ \E e \in emap : Cardinality(StartingAt(emap, e.start_vtx)) = 2


(***************************************************************************)
(* font::save_sfd: the scale factors from the property "ssf"               *)
(***************************************************************************)
\* longest text of the property
MaxSsfLen == 4

\* the characters of the texts
SsfChars == {"0", "1", "/", "-", "z"}

\* strtoul(..., 0): the base is 8 after a leading 0, otherwise 10 (the
\* texts hold no x, so that 0x never starts a number)
StrtoulBase(s, p) == IF CharAt(s, p) = "0" THEN 8 ELSE 10

\* the end of the run of digits of the base that starts at p
RECURSIVE StrtoulEnd(_, _, _)
StrtoulEnd(s, p, base) ==
    IF CharAt(s, p) \in Digits /\ DigitVal(CharAt(s, p)) < base
    THEN StrtoulEnd(s, p + 1, base)
    ELSE p

\* the value of the digits s[p..q-1] after the digits that made acc
RECURSIVE StrtoulVal(_, _, _, _, _)
StrtoulVal(s, p, q, base, acc) ==
    IF p >= q THEN acc
    ELSE StrtoulVal(s, p + 1, q, base, acc * base + DigitVal(s[p]))

\* strtoul from the first digit d on, p being where the text started; a
\* negated value -v stands for the unsigned long 2^64 - v
StrtoulDigits(s, p, d, neg, end) ==
    IF end = d THEN [val |-> 0, end |-> p]
    ELSE [val |-> IF neg THEN 0 - StrtoulVal(s, d, end, StrtoulBase(s, d), 0)
                  ELSE StrtoulVal(s, d, end, StrtoulBase(s, d), 0),
          end |-> end]

\* strtoul after the white space: an optional sign, then the digits
StrtoulSign(s, p, q) ==
    IF CharAt(s, q) \in {"+", "-"}
    THEN StrtoulDigits(s, p, q + 1, CharAt(s, q) = "-",
                       StrtoulEnd(s, q + 1, StrtoulBase(s, q + 1)))
    ELSE StrtoulDigits(s, p, q, FALSE, StrtoulEnd(s, q, StrtoulBase(s, q)))

\* strtoul(s + p, &end, 0): the value and end
strtoul(s, p) == StrtoulSign(s, p, SkipSpace(s, p))

\* save_sfd after a = strtoul(...): the branch on end[0] and on b; the
\* assignments m_ssfx = 2 * a and m_ssfy = 2 * b convert to int, which
\* leaves the values of the texts of the model as they are
SsfAssign(s, a, x, y) ==
    IF CharAt(s, a.end) # "/" THEN <<x, y>>
    ELSE IF strtoul(s, a.end + 1).val = 0 THEN <<x, y>>
    ELSE SsfFactors(a.val, strtoul(s, a.end + 1).val)

\* the part of font::save_sfd that reads the property: m_ssfx and m_ssfy
\* afterwards
save_sfd_ssf(has, s, x, y) ==
    IF ~has THEN <<x, y>> ELSE SsfAssign(s, strtoul(s, 1), x, y)

\* a font as constructed (m_ssfx = 2, m_ssfy = 2), with or without the
\* property
SsfInit ==
    /\ ssf_has \in BOOLEAN
    /\ \E n \in 0..MaxSsfLen : ssf_text \in [1..n -> SsfChars]
    /\ ~ssf_has => ssf_text = <<>>
    /\ m_ssfx = default_scale_factor
    /\ m_ssfy = default_scale_factor
    /\ ssf_pc = "props"
    /\ SsfOnly

\* font::save_sfd up to the calls of save_sfd_glyph, which hand m_ssfx and
\* m_ssfy to the vectorizer
SaveSfd ==
    /\ ssf_pc = "props"
    /\ \E r \in {save_sfd_ssf(ssf_has, ssf_text, m_ssfx, m_ssfy)} :
          m_ssfx' = r[1] /\ m_ssfy' = r[2]
    /\ ssf_pc' = "parsed"
    /\ UNCHANGED <<ssf_has, ssf_text>>
    /\ UNCHANGED nonssf

SsfNext == SaveSfd

SpecSsf == SsfInit /\ [][SsfNext]_vars

\* C29: for every value of the property ssf (a zero numerator and
\* malformed text included) the scale factors save_sfd hands to the
\* vectorizer are positive even integers, so that the half steps sx/2 and
\* sy/2 of n2_angle are positive
C29_PositiveEven ==
    ssf_pc = "parsed" =>
        /\ m_ssfx > 0 /\ m_ssfx % 2 = 0 /\ m_ssfx \div 2 > 0
        /\ m_ssfy > 0 /\ m_ssfy % 2 = 0 /\ m_ssfy \div 2 > 0


(***************************************************************************)
(* Vectorizer: the graph after internal_edge_delete                        *)
(***************************************************************************)
\* the edge the other way round
Twin(e) == Edge(e.end_vtx, e.start_vtx)

\* the vertices of the pixel grid of the glyph (column, row above the
\* shifted baseline) and the unit edges between neighbouring vertices, in
\* both directions, in output coordinates
GridPoints ==
    (0..m_glyph.m_size.w) \X ((0 - m_descent)..(m_glyph.m_size.h - m_descent))
GridVtx(p) == Vtx(UnitY * p[2], UnitX * p[1])
GridEdges ==
    {Edge(GridVtx(ab[1]), GridVtx(ab[2])) :
        ab \in {q \in GridPoints \X GridPoints :
                  Abs(q[1][1] - q[2][1]) + Abs(q[1][2] - q[2][2]) = 1}}

\* the point (times 4) lies within the square of bitmap pixel c
InPixel(py, px, c) ==
    /\ Abs(py - CentreY(c[2])) < 2 * UnitY
    /\ Abs(px - CentreX(c[1])) < 2 * UnitX

\* a set pixel of the glyph lies on the right / on the left of the edge
SetOnRight(e) ==
    \E c \in GlyphCells :
        /\ PixelSet(m_glyph, c[1], c[2])
        /\ InPixel(MidY(e) + NormY(e), MidX(e) + NormX(e), c)
SetOnLeft(e) ==
    \E c \in GlyphCells :
        /\ PixelSet(m_glyph, c[1], c[2])
        /\ InPixel(MidY(e) - NormY(e), MidX(e) - NormX(e), c)

\* the unit edges between a set pixel on their right and an unset pixel or
\* the outside of the canvas on their left
BoundaryEdges == {e \in GridEdges : SetOnRight(e) /\ ~SetOnLeft(e)}

\* make_squares and internal_edge_delete have run, no polygon is popped yet
SquaresFused == pc = "popping" /\ vt # V_N1 /\ pmap = <<>>

\* C23: for every glyph, after make_squares followed by
\* internal_edge_delete the graph holds no edge together with its reverse,
\* and it consists exactly of the unit edges that separate a set pixel from
\* an unset or out-of-canvas 4-neighbour, each with its original endpoints
\* and with the set pixel on its right.
C23_BoundaryEdges ==
    SquaresFused =>
        /\ \A e \in emap : Twin(e) \notin emap
        /\ \A e \in emap : SetOnRight(e)
        /\ emap = BoundaryEdges

\* a glyph with a descent shift in which two set pixels share a side and
\* an unset pixel lies within the canvas: internal edges were deleted
C23_Witness ==
    /\ SquaresFused
    /\ m_descent > 0
    /\ emap # {}
    /\ Cardinality(emap) < 4 * Cardinality({c \in GlyphCells : PixelSet(m_glyph, c[1], c[2])})
    /\ \E c \in GlyphCells : ~PixelSet(m_glyph, c[1], c[2])


(***************************************************************************)
(* Vectorizer: the turn next_edge takes where two edges start              *)
(***************************************************************************)
\* the flags of the pop_poly calls of simple(), n1() and n2()
PopFlags == IF vt \in {V_SIMPLE, V_N1} THEN {P_SIMPLIFY_LINES} ELSE N2Flags

\* The calls of next_edge in the loop of pop_poly at which neigh_edges
\* finds two edges: the pairs <<direction of the current edge, direction
\* of the edge returned>>.
RECURSIVE WalkTurns(_, _, _, _)
TurnAt(ne, prev_dir, next) ==
    IF ne.ret = 2 THEN {<<prev_dir, trivial_dir(next)>>} ELSE {}
TurnStep(em, poly, prev_dir, flags, next) ==
    IF next = EndIt THEN {}
    ELSE TurnAt(neigh_edges(em, prev_dir, poly[Len(poly)].end_vtx), prev_dir, next)
         \cup WalkTurns(em \ {next}, WalkAppend(poly, next, prev_dir, flags),
                        trivial_dir(next), flags)
WalkTurns(em, poly, prev_dir, flags) ==
    IF em = {} \/ poly[Len(poly)].end_vtx = poly[1].start_vtx THEN {}
    ELSE TurnStep(em, poly, prev_dir, flags,
                  next_edge(em, prev_dir, poly[Len(poly)], flags))

\* the turns of the pop_poly call that comes next
NextTurns ==
    WalkTurns(emap \ {FirstEdge(emap)}, <<FirstEdge(emap)>>,
              trivial_dir(FirstEdge(emap)), PopFlags)

\* C24: in simple() and in n2() without P_ISTHMUS, at every vertex with
\* two outgoing edges the edge next_edge chooses is the right turn: its
\* direction is the direction of the incoming edge plus 90 degrees modulo
\* 360, for each of the incoming directions 0, 90, 180 and 270.
C24_RightTurn ==
    (pc = "popping" /\ vt \in {V_SIMPLE, V_N2} /\ emap # {}) =>
        \A t \in NextTurns :
            /\ t[1] \in {0, 90, 180, 270}
            /\ t[2] = (t[1] + 90) % 360

\* the turns of all pop_poly calls from the edge set em on
RECURSIVE RunTurns(_)
RunTurns(em) ==
    IF em = {} THEN {}
    ELSE WalkTurns(em \ {FirstEdge(em)}, <<FirstEdge(em)>>,
                   trivial_dir(FirstEdge(em)), PopFlags)
         \cup RunTurns(pop_poly(em, PopFlags).emap)

\* A ring of pixels around an enclave with pixels that touch it at corners
\* only, on a canvas of TurnW x TurnW, and the glyphs that hold a part of
\* its pixels:
\*     ###.
\*     #.#.
\*     ##.#
\*     ..#.
TurnW == 4
TurnPixels ==
    {<<0, 0>>, <<1, 0>>, <<2, 0>>, <<0, 1>>, <<2, 1>>,
     <<0, 2>>, <<1, 2>>, <<3, 2>>, <<2, 3>>}
TurnGlyphs == {GlyphOf(TurnW, TurnW, pix) : pix \in SUBSET TurnPixels}

\* the runs of SpecVec, and simple() on these glyphs
TurnInit ==
    \/ VecStart(SmallGlyphs, {V_SIMPLE, V_N1, V_N2, V_N2EV}, ScaleFactors)
    \/ VecStart(TurnGlyphs, {V_SIMPLE}, ScaleFactors)

SpecTurn == TurnInit /\ [][VecNext]_vars

\* a glyph in whose extraction two edges start at the end of an edge of
\* each of the four directions, and the right turn is taken each time
C24_Witness ==
    /\ pc = "popping" /\ vt \in {V_SIMPLE, V_N2} /\ pmap = <<>>
    /\ scale_factor_x > 0
    /\ {t[1] : t \in RunTurns(emap)} = {0, 90, 180, 270}
    /\ \A t \in RunTurns(emap) : t[2] = (t[1] + 90) % 360


(***************************************************************************)
(* Vectorizer: the bitmap position of next_edge with P_ISTHMUS             *)
(***************************************************************************)
\* The calls of next_edge in the loop of pop_poly that get past the test
\* (!(flags & P_ISTHMUS) || ret <= 1): the pairs <<current edge, bmp>>.
RECURSIVE WalkBmps(_, _, _, _)
BmpAt(ne, prev_dir, cur_edge, flags) ==
    IF P_ISTHMUS \in flags /\ ne.ret = 2
    THEN {<<cur_edge, IsthmusBmp(prev_dir, cur_edge)>>}
    ELSE {}
BmpStep(em, poly, prev_dir, flags, next) ==
    BmpAt(neigh_edges(em, prev_dir, poly[Len(poly)].end_vtx), prev_dir,
          poly[Len(poly)], flags)
    \cup (IF next = EndIt THEN {}
          ELSE WalkBmps(em \ {next}, WalkAppend(poly, next, prev_dir, flags),
                        trivial_dir(next), flags))
WalkBmps(em, poly, prev_dir, flags) ==
    IF em = {} \/ poly[Len(poly)].end_vtx = poly[1].start_vtx THEN {}
    ELSE BmpStep(em, poly, prev_dir, flags,
                 next_edge(em, prev_dir, poly[Len(poly)], flags))

\* the positions of the pop_poly call that comes next
NextBmps ==
    WalkBmps(emap \ {FirstEdge(emap)}, <<FirstEdge(emap)>>,
             trivial_dir(FirstEdge(emap)), PopFlags)

\* bitmap pixel c lies on the right-hand side of the edge
OnRightOf(e, c) == InPixel(MidY(e) + NormY(e), MidX(e) + NormX(e), c)

\* C25: with P_ISTHMUS, for each of the four directions of the current
\* edge (0, 90, 180, 270) the bitmap position next_edge derives for the
\* tests of A1 and A2 is the pixel on the right-hand side of the current
\* edge: bmp.x is its column, bmp.y its row.
C25_RightPixel ==
    (pc = "popping" /\ vt = V_N2EV /\ emap # {}) =>
        \A b \in NextBmps :
            /\ trivial_dir(b[1]) \in {0, 90, 180, 270}
            /\ \E c \in GlyphCells :
                 OnRightOf(b[1], c) /\ b[2] = Vtx(c[2], c[1])


(***************************************************************************)
(* Vectorizer: termination and the consumption of the edges                *)
(***************************************************************************)
\* the polygons as pop_poly returned them (n2() hands them to n2_angle
\* before it pushes them to pmap)
PoppedPolys ==
    IF vt \in {V_SIMPLE, V_N1} THEN pmap
    ELSE [k \in 1..Len(n2log) |-> n2log[k].poly]

\* vertex v lies on the segment of edge p
Between(a, v, b) == (a <= v /\ v <= b) \/ (b <= v /\ v <= a)
OnSegment(p, v) ==
    /\ (p.end_vtx.y - p.start_vtx.y) * (v.x - p.start_vtx.x)
         = (p.end_vtx.x - p.start_vtx.x) * (v.y - p.start_vtx.y)
    /\ Between(p.start_vtx.y, v.y, p.end_vtx.y)
    /\ Between(p.start_vtx.x, v.x, p.end_vtx.x)

\* edge e was appended to a polygon as p or merged into p
Holds(p, e) ==
    /\ trivial_dir(p) = trivial_dir(e)
    /\ OnSegment(p, e.start_vtx)
    /\ OnSegment(p, e.end_vtx)

\* the polygon edges that hold e
HoldersOf(e) ==
    {ki \in UNION {{<<k, i>> : i \in 1..Len(PoppedPolys[k])} :
                     k \in 1..Len(PoppedPolys)} :
        Holds(PoppedPolys[ki[1]][ki[2]], e)}

\* the number of rounds of the loop of pop_poly that find a next edge
RECURSIVE WalkSteps(_, _, _, _)
WalkAgain(em, poly, prev_dir, flags, next) ==
    IF next = EndIt THEN 0
    ELSE 1 + WalkSteps(em \ {next}, WalkAppend(poly, next, prev_dir, flags),
                       trivial_dir(next), flags)
WalkSteps(em, poly, prev_dir, flags) ==
    IF em = {} \/ poly[Len(poly)].end_vtx = poly[1].start_vtx THEN 0
    ELSE WalkAgain(em, poly, prev_dir, flags,
                   next_edge(em, prev_dir, poly[Len(poly)], flags))
NextSteps ==
    WalkSteps(emap \ {FirstEdge(emap)}, <<FirstEdge(emap)>>,
              trivial_dir(FirstEdge(emap)), PopFlags)

\* pop_poly returned r: each edge it took out of the graph is held by
\* exactly one edge of the polygon it returned, and it took at least one
RoundConsumes(r) ==
    /\ r.emap \subseteq emap
    /\ Cardinality(r.emap) < Cardinality(emap)
    /\ \A e \in emap \ r.emap :
         Cardinality({i \in 1..Len(r.poly) : Holds(r.poly[i], e)}) = 1

\* No edge that is still in the graph is held by a polygon popped before;
\* the pop_poly round that comes next (its polygon is pushed to pmap)
\* consumes the edges it takes once, in fewer steps than there are edges;
\* the loop ends with the graph empty.
EdgesConsumedOnce ==
    pc \in {"popping", "done"} =>
        /\ \A e \in emap : HoldersOf(e) = {}
        /\ emap # {} => RoundConsumes(pop_poly(emap, PopFlags))
        /\ emap # {} => NextSteps < Cardinality(emap)
        /\ pc = "done" => emap = {}

\* The call returns: it does not end in the division by zero (a state
\* that is neither the return nor the trap always has a next step:
\* emission, internal_edge_delete, a pop_poly round or the return).
NoTrap == pc # "trap"

\* C26: for every glyph, simple(), n1() and n2() terminate with the edge
\* graph empty; every edge that is in the graph after internal_edge_delete
\* is consumed by exactly one polygon walk (appended to, or merged into an
\* edge of, exactly one returned polygon), and the number of walk steps
\* never exceeds the number of edges.
C26_Consumed == EdgesConsumedOnce /\ NoTrap


(***************************************************************************)
(* vfontas: copy x y w h bx by                                             *)
(***************************************************************************)
\* width of the wide glyphs of the fonts
CopyWide == 9

\* glyphs CopyWide pixels wide and one pixel high with pixels at their ends
WideGlyphs ==
    {GlyphOf(CopyWide, 1, pix) : pix \in SUBSET {<<0, 0>>, <<CopyWide - 1, 0>>}}

\* the fonts of MaxGlyphs glyphs, which need not have one size
CopyFonts == [1..MaxGlyphs -> FontGlyphs \cup WideGlyphs]

CopyInit ==
    /\ cp_glyph \in CopyFonts
    /\ cp_before = cp_glyph
    /\ cp_cmd = <<>>
    /\ cp_pc = "loaded"
    /\ CopyOnly

\* copy_rect_to writes out.m_data[opos.byte] beyond the end of the buffer
WritesBeyond(g, sof, other, pof) ==
    \E c \in CopiedCells(g, sof, pof) :
        OutBit(c, sof, pof, other.m_size.w) >= 8 * Len(other.m_data)

\* font::copy_rect: for (auto &g : m_glyph) g = g.copy_rect_to(src, g, dst)
copy_rect(glyphs, src, dst) ==
    [k \in DOMAIN glyphs |-> copy_rect_to(glyphs[k], src, glyphs[k], dst, TRUE)]

\* vf_copy after strtol: the font it leaves behind
vf_copy(glyphs, x, y, w, h, bx, by) ==
    IF x < 0 \/ y < 0 THEN glyphs
    ELSE IF w <= 0 \/ h <= 0 THEN glyphs
    ELSE IF Len(glyphs) > 0
         THEN copy_rect(glyphs, vfrect(x, y, w, h),
                  vfrect(bx, by, glyphs[1].m_size.w, glyphs[1].m_size.h))
         ELSE glyphs

\* vf_copy reaches copy_rect and a glyph is written beyond its buffer
CopyWritesBeyond(glyphs, x, y, w, h, bx, by) ==
    /\ x >= 0 /\ y >= 0 /\ w > 0 /\ h > 0
    /\ \E k \in DOMAIN glyphs :
         WritesBeyond(glyphs[k], vfrect(x, y, w, h), glyphs[k],
             vfrect(bx, by, glyphs[1].m_size.w, glyphs[1].m_size.h))

\* the command "copy x y w h bx by", the one command of the run; a write
\* beyond a buffer that does no harm is left out of the glyphs
Copy(x, y, w, h, bx, by) ==
    /\ cp_pc = "loaded"
    /\ cp_before' = cp_glyph
    /\ cp_cmd' = <<x, y, w, h, bx, by>>
    /\ cp_glyph' = vf_copy(cp_glyph, x, y, w, h, bx, by)
    /\ cp_pc' = "copied"
    /\ UNCHANGED noncp

\* the command writes beyond the buffer of a glyph (undefined behaviour)
\* and the process ends there
CopyOverrun(x, y, w, h, bx, by) ==
    /\ cp_pc = "loaded"
    /\ CopyWritesBeyond(cp_glyph, x, y, w, h, bx, by)
    /\ cp_cmd' = <<x, y, w, h, bx, by>>
    /\ cp_pc' = "overrun"
    /\ UNCHANGED <<cp_glyph, cp_before>>
    /\ UNCHANGED noncp

CopyNext ==
    \E x \in (-1)..1, y \in 0..1, w \in 0..FontW, h \in 1..FontH,
       bx \in {-1, 0, 1, CopyWide - 1}, by \in 0..1 :
        \/ Copy(x, y, w, h, bx, by)
        \/ CopyOverrun(x, y, w, h, bx, by)

SpecCopy == CopyInit /\ [][CopyNext]_vars

\* the rectangles copy_rect hands to copy_rect_to for the command of cp_cmd
CopySrc == vfrect(cp_cmd[1], cp_cmd[2], cp_cmd[3], cp_cmd[4])
CopyDst ==
    vfrect(cp_cmd[5], cp_cmd[6], cp_before[1].m_size.w, cp_before[1].m_size.h)
CopyAccepted ==
    /\ Len(cp_cmd) = 6
    /\ cp_cmd[1] >= 0 /\ cp_cmd[2] >= 0 /\ cp_cmd[3] > 0 /\ cp_cmd[4] > 0

\* the sampled pixels of glyph g whose translated position is d
SampledFor(g, d) ==
    {c \in CopiedCells(g, CopySrc, CopyDst) : TargetOf(c, CopySrc, CopyDst) = d}

\* copy_rect_to on glyph before gave glyph after: every sampled pixel goes
\* to a position within the destination; a destination pixel to which a
\* sampled pixel is translated has the value of that pixel (the last one
\* in the order of the loops); every other pixel and the padding bits of
\* the buffer are as they were
CopiedWithin(before, after) ==
    /\ after.m_size = before.m_size
    /\ \A c \in CopiedCells(before, CopySrc, CopyDst) :
         /\ TargetOf(c, CopySrc, CopyDst)[1] < before.m_size.w
         /\ TargetOf(c, CopySrc, CopyDst)[2] < before.m_size.h
    /\ \A d \in Cells(before.m_size.w, before.m_size.h) :
         PixelSet(after, d[1], d[2]) =
            (IF SampledFor(before, d) = {} THEN PixelSet(before, d[1], d[2])
             ELSE PixelSet(before, LastWriter(before, SampledFor(before, d))[1],
                                   LastWriter(before, SampledFor(before, d))[2]))
    /\ \A n \in (before.m_size.w * before.m_size.h)..(8 * Len(before.m_data) - 1) :
         TestBit(after.m_data, n) = TestBit(before.m_data, n)

\* C27: for every source glyph, destination glyph, src_rect and dst_rect
\* (a dst_rect whose size differs from the destination glyph's included,
\* as in font::copy_rect on a font with glyphs of different sizes),
\* copy_rect_to changes only destination pixels (ox, oy) with
\* 0 <= ox < destination width and 0 <= oy < destination height, each at
\* the translated position of the sampled source pixel; it never writes a
\* bit outside the destination bitmap or into a different row.
C27_WithinDestination ==
    /\ cp_pc # "overrun"
    /\ (cp_pc = "copied" /\ CopyAccepted) =>
          \A k \in DOMAIN cp_before : CopiedWithin(cp_before[k], cp_glyph[k])


(***************************************************************************)
(* The bits of the buffer beyond w*h                                       *)
(***************************************************************************)
\* glyph::upscale
upscale(g, fw, fh) ==
    GlyphOf(g.m_size.w * fw, g.m_size.h * fh,
        {c \in Cells(g.m_size.w * fw, g.m_size.h * fh) :
            TestBit(g.m_data, (c[2] \div fh) * g.m_size.w + (c[1] \div fw))})

\* glyph::find_baseline
find_baseline(g) ==
    IF \E c \in Cells(g.m_size.w, g.m_size.h) : PixelSet(g, c[1], c[2])
    THEN 1 + CHOOSE y \in 0..(g.m_size.h - 1) :
               /\ \E x \in 0..(g.m_size.w - 1) : PixelSet(g, x, y)
               /\ \A c \in Cells(g.m_size.w, g.m_size.h) :
                    PixelSet(g, c[1], c[2]) => c[2] <= y
    ELSE -1

\* the rows of as_pbm and as_pclt, one text per pixel
PixelRows(g, one, zero) ==
    [r \in 1..g.m_size.h |->
        [k \in 1..g.m_size.w |->
            IF PixelSet(g, k - 1, r - 1) THEN one ELSE zero]]

\* glyph::as_pbm: the header line, the size, the rows
as_pbm(g) ==
    IF Len(g.m_data) < bytes_per_glyph(g.m_size) THEN <<>>
    ELSE <<"P1", g.m_size.w, g.m_size.h, PixelRows(g, "1", "0")>>

\* glyph::as_pclt
as_pclt(g) ==
    IF Len(g.m_data) < bytes_per_glyph(g.m_size) THEN <<>>
    ELSE <<"PCLT", g.m_size.w, g.m_size.h, PixelRows(g, "##", "..")>>

\* the bytes font::save_fnt writes for a font that holds the glyph g
save_fnt(g) == g.m_data

\* a glyph as a file loads it, and the glyph of the same size with the
\* other pixels set: after invert() it shows the pixels of the first
PadInit ==
    /\ pd_a \in FontGlyphs
    /\ pd_b = GlyphOf(pd_a.m_size.w, pd_a.m_size.h,
                  {c \in Cells(pd_a.m_size.w, pd_a.m_size.h) :
                      ~PixelSet(pd_a, c[1], c[2])})
    /\ pd_op = "" /\ pd_outa = <<>> /\ pd_outb = <<>>
    /\ pd_pc = "loaded"
    /\ PadOnly

\* font::invert on the second font
PadInvert ==
    /\ pd_pc = "loaded"
    /\ pd_b' = invert(pd_b)
    /\ pd_pc' = "inverted"
    /\ UNCHANGED <<pd_a, pd_op, pd_outa, pd_outb>>
    /\ UNCHANGED nonpad

\* a transform or writer is run on both fonts
Consume(op, outa, outb) ==
    /\ pd_pc = "inverted"
    /\ pd_op' = op
    /\ pd_outa' = outa
    /\ pd_outb' = outb
    /\ pd_pc' = "consumed"
    /\ UNCHANGED <<pd_a, pd_b>>
    /\ UNCHANGED nonpad

PadFlip ==
    \E fx \in BOOLEAN, fy \in BOOLEAN :
        Consume("flip", flip(pd_a, fx, fy), flip(pd_b, fx, fy))
PadUpscale ==
    \E fw \in 1..2, fh \in 1..2 :
        Consume("upscale", upscale(pd_a, fw, fh), upscale(pd_b, fw, fh))
\* font::copy_rect: the glyph is source and destination
PadCopyRect ==
    \E x \in 0..1, y \in 0..1, w \in 1..FontW, h \in 1..FontH,
       bx \in (-1)..1, by \in (-1)..1, overwrite \in BOOLEAN :
        Consume("copy_rect_to",
            copy_rect_to(pd_a, vfrect(x, y, w, h), pd_a,
                vfrect(bx, by, pd_a.m_size.w, pd_a.m_size.h), overwrite),
            copy_rect_to(pd_b, vfrect(x, y, w, h), pd_b,
                vfrect(bx, by, pd_b.m_size.w, pd_b.m_size.h), overwrite))
PadBaseline ==
    Consume("find_baseline", find_baseline(pd_a), find_baseline(pd_b))
PadRowpad == Consume("as_rowpad", as_rowpad(pd_a), as_rowpad(pd_b))
PadPbm == Consume("as_pbm", as_pbm(pd_a), as_pbm(pd_b))
PadPclt == Consume("as_pclt", as_pclt(pd_a), as_pclt(pd_b))
PadSaveFnt == Consume("save_fnt", save_fnt(pd_a), save_fnt(pd_b))

\* save_sfd_glyph constructs the vectorizer for the glyph g
PadVectorizer(g) ==
    /\ m_glyph' = g
    /\ pc' = "start"
    /\ emap' = {}
    /\ pmap' = <<>>
    /\ n2log' = <<>>
    /\ UNCHANGED <<mapvars, rpvars, fontvars, tvars, evars, pvars, avars, uvars, qvars, ssfvars, cpvars>>

\* the vectorizer on the glyph of the first font
PadVecFirst ==
    /\ pd_pc = "inverted"
    /\ PadVectorizer(pd_a)
    /\ m_descent' \in 0..MaxDescent
    /\ \E s \in ScaleFactors : scale_factor_x' = s[1] /\ scale_factor_y' = s[2]
    /\ vt' \in {V_SIMPLE, V_N1, V_N2, V_N2EV}
    /\ pd_op' = "vectorizer"
    /\ pd_pc' = "vec1"
    /\ UNCHANGED <<pd_a, pd_b, pd_outa, pd_outb>>

\* it has ended; the same call on the glyph of the second font
PadVecSecond ==
    /\ pd_pc = "vec1"
    /\ pc \in {"done", "trap"}
    /\ pd_outa' = <<pc, pmap>>
    /\ PadVectorizer(pd_b)
    /\ pd_pc' = "vec2"
    /\ UNCHANGED <<m_descent, scale_factor_x, scale_factor_y, vt>>
    /\ UNCHANGED <<pd_a, pd_b, pd_op, pd_outb>>

PadVecEnd ==
    /\ pd_pc = "vec2"
    /\ pc \in {"done", "trap"}
    /\ pd_outb' = <<pc, pmap>>
    /\ pd_pc' = "consumed"
    /\ UNCHANGED <<pd_a, pd_b, pd_op, pd_outa>>
    /\ UNCHANGED nonpad

PadNext ==
    \/ PadInvert
    \/ PadFlip
    \/ PadUpscale
    \/ PadCopyRect
    \/ PadBaseline
    \/ PadRowpad
    \/ PadPbm
    \/ PadPclt
    \/ PadSaveFnt
    \/ PadVecFirst
    \/ VecNext
    \/ PadVecSecond
    \/ PadVecEnd

SpecPad == PadInit /\ [][PadNext]_vars

\* two glyphs of one size with the same pixels
SamePixels(a, b) ==
    /\ a.m_size = b.m_size
    /\ \A c \in Cells(a.m_size.w, a.m_size.h) :
         PixelSet(a, c[1], c[2]) = PixelSet(b, c[1], c[2])

\* the two glyphs agree on every pixel and differ in the bits beyond w*h
DifferInPadding ==
    /\ SamePixels(pd_a, pd_b)
    /\ pd_a.m_data # pd_b.m_data

\* C28: the buffer bits beyond w*h are don't-care for every consumer: for
\* two fonts whose glyphs have equal sizes and agree on every pixel but
\* differ in the bits of the last byte beyond w*h (as after invert),
\* every transform (flip, upscale, copy_rect_to) produces the same pixels
\* and find_baseline, every writer (as_rowpad, as_pbm, as_pclt, save_fnt)
\* and the vectorizer produce the same output.
C28_PaddingIgnored ==
    (pd_pc = "consumed" /\ DifferInPadding) =>
        IF pd_op \in {"flip", "upscale", "copy_rect_to"}
        THEN SamePixels(pd_outa, pd_outb)
        ELSE pd_outa = pd_outb


(***************************************************************************)
(* palcomp: the shape of the groups eval_tokenize builds                   *)
(***************************************************************************)
\* operand, operator, operand, ...
Alternates(tokens) ==
    /\ Len(tokens) % 2 = 1
    /\ \A i \in 1..Len(tokens) : (tokens[i].type = "op") <=> (i % 2 = 0)

\* the positions at which a call of eval_tokenize starts: the start of the
\* text and the position after every opening parenthesis
LevelStarts(s) == {1} \cup {p + 1 : p \in {q \in 1..Len(s) : s[q] = "("}}

\* every group of the tree has one element, or three with an operator in
\* the middle
RECURSIVE GroupOk(_)
GroupOk(tokens) ==
    /\ \/ Len(tokens) = 1
       \/ Len(tokens) = 3 /\ tokens[2].type = "op"
    /\ \A i \in 1..Len(tokens) :
         tokens[i].type = "grp" => GroupOk(tokens[i].val)

\* eval_grp on tokens, or an eval_grp call that eval_arg makes below it,
\* gets to "Expected a group with 3 tokens" or to "Expected middle token
\* to be an operator"
RECURSIVE GrpComplains(_)
ArgComplains(token) == token.type = "grp" /\ GrpComplains(token.val)
GrpComplains(tokens) ==
    IF Len(tokens) = 1
    THEN tokens[1].type = "grp" /\ GrpComplains(tokens[1].val)
    ELSE IF Len(tokens) # 3 THEN TRUE
    ELSE IF tokens[2].type # "op" THEN TRUE
    ELSE ArgComplains(tokens[1]) \/ ArgComplains(tokens[3])

\* C30: whenever eval_tokenize returns success, the tokens at every
\* nesting level alternated operand, operator, operand, ..., the top level
\* has been reduced to a single token, and every group of the tree has
\* either one element or three with an operator in the middle; eval_grp's
\* errors "Expected a group with 3 tokens" and "Expected middle token to be
\* an operator" are unreachable.
C30_GroupShapes ==
    (e_pc = "parsed" /\ e_res.ret = 0) =>
        /\ \A p \in LevelStarts(e_expr) :
             eval_tokenize(e_expr, p).ret = 0 =>
                 Alternates(Section1(e_expr, p, <<>>, "none").tokens)
        /\ Len(e_res.tokens) = 1
        /\ GroupOk(e_res.tokens)
        /\ ~GrpComplains(e_res.tokens)

\* an accepted expression in parentheses with an operator in it: a group
\* of one element that holds a group of three
C30_Witness ==
    /\ e_pc = "parsed" /\ e_res.ret = 0
    /\ e_expr[1] = "("
    /\ Len(e_res.tokens) = 1
    /\ e_res.tokens[1].type = "grp"
    /\ Len(e_res.tokens[1].val) = 1
    /\ e_res.tokens[1].val[1].type = "grp"
    /\ Len(e_res.tokens[1].val[1].val) = 3

====
